---------------------------- MODULE Spec2Model ----------------------------
(***************************************************************************)
(* The DynamicSlider component of src/plugins/flags.ts as a state machine. *)
(*                                                                         *)
(* State: the component's useState cells with every queued update applied, *)
(* the values of the cells in the last committed render (rendered), the    *)
(* refs, the dependencies the effects last ran with, the browser's queue   *)
(* of requested animation frames, the trailing call the throttle holds,    *)
(* the width of the container element, and which instance (items,          *)
(* defaultIndex, config) is mounted.                                       *)
(*                                                                         *)
(* The initial state is the first commit (containerWidth 0, the offset 0,  *)
(* the range {0, 0}); Mount runs the mount effects on it.  The handlers,   *)
(* the handle's methods and the effects are closures of the last committed *)
(* render: they read rendered, and what they set is queued.  What is set   *)
(* outside a discrete event (a call of the handle, a frame callback, the   *)
(* ResizeObserver's callback, a timer, an effect, a pointer move, a mouse  *)
(* leave) is committed by a later step Render, so that several handlers    *)
(* may run against one render; what a click, a pointer down or a pointer   *)
(* up sets is committed when the handler returns, after the effects that   *)
(* were still pending (SyncRender).  RunEffects runs the effects whose     *)
(* dependencies a commit changed (the visible range is stored by an        *)
(* effect, so it follows the offset by a commit).                          *)
(*                                                                         *)
(* JavaScript numbers are IEEE-754 doubles, computed bit for bit, NaN and  *)
(* the infinities included; Math.exp is V8's (the fdlibm algorithm).       *)
(***************************************************************************)
EXTENDS Integers, Sequences, FiniteSets, TLC

(***************************************************************************)
(* Bounds of the model.                                                    *)
(***************************************************************************)
\* How many input events (calls of the imperative handle, clicks, pointer
\* down and up events, width changes and refreshes) one behaviour handles,
\* how many pointer moves and mouse leaves besides them, and how many calls
\* the ten-item instance handles.  Animation frames, renders, effects and timers
\* are not counted: every animation runs as far as the browser lets it.
MaxInputs == 2

MaxMoves == 1

MaxCalls == 3

(***************************************************************************)
(* JavaScript numbers: IEEE-754 double precision, computed bit for bit.    *)
(*                                                                         *)
(* A finite number other than 0 is [s, hi, lo, e]: the sign s (1 or -1)    *)
(* and the magnitude (hi * 2^27 + lo) * 2^e, whose 53-bit mantissa         *)
(* hi * 2^27 + lo lies in [2^52, 2^53).  0 has hi = lo = 0 and e = -2000,  *)
(* Infinity and -Infinity have hi = lo = 0 and e = 2000, NaN has s = 0.    *)
(* Every operation rounds its exact result to the nearest number, ties to  *)
(* the even mantissa.  The sign of zero is not kept (-0 is 0), and the     *)
(* exponent is not bounded: no operation of the component comes near the   *)
(* largest or the smallest double.  Intermediate integers stay below 2^31. *)
(* An intermediate value that is used more than once is handed on as an    *)
(* operator parameter, so every operation is a short chain of steps.       *)
(***************************************************************************)
B25 == 2^25

B26 == 2^26

B27 == 2^27

Dbl(s, hi, lo, e) == [s |-> s, hi |-> hi, lo |-> lo, e |-> e]

NaN == Dbl(0, 0, 0, 0)

Zero == Dbl(1, 0, 0, -2000)

Infinity(s) == Dbl(s, 0, 0, 2000)

One == Dbl(1, B25, 0, -52)

IsNaN(a) == a.s = 0

IsZero(a) == a.s # 0 /\ a.hi = 0 /\ a.e < 0

IsInfinite(a) == a.s # 0 /\ a.hi = 0 /\ a.e > 0

\* The number of bits of n, 0 <= n < 2^31: k bits are counted already
BitLen2(n, k) == IF n >= 2 THEN k + 2 ELSE k + n

BitLen4(n, k) ==
  BitLen2(IF n >= 4 THEN n \div 4 ELSE n, IF n >= 4 THEN k + 2 ELSE k)

BitLen8(n, k) ==
  BitLen4(IF n >= 16 THEN n \div 16 ELSE n, IF n >= 16 THEN k + 4 ELSE k)

BitLen16(n, k) ==
  BitLen8(IF n >= 256 THEN n \div 256 ELSE n, IF n >= 256 THEN k + 8 ELSE k)

BitLen(n) ==
  BitLen16(IF n >= 65536 THEN n \div 65536 ELSE n, IF n >= 65536 THEN 16 ELSE 0)

\* The mantissa (qh, ql) and one more
Incremented(s, qh, ql, e) ==
  IF ql + 1 < B27 THEN Dbl(s, qh, ql + 1, e)
  ELSE IF qh + 1 < B26 THEN Dbl(s, qh + 1, 0, e)
  ELSE Dbl(s, B25, 0, e + 1)

\* (qh, ql) is an integer cut to 53 bits, rem2 twice the part cut off and
\* p the weight of the last bit kept: to nearest, ties to even
RoundedTo(s, qh, ql, e, rem2, p, st) ==
  IF rem2 > p \/ (rem2 = p /\ (st \/ ql % 2 = 1))
  THEN Incremented(s, qh, ql, e) ELSE Dbl(s, qh, ql, e)

\* The integer wh * 2^27 + wl has len bits
RoundLen(s, wh, wl, st, e, len) ==
  IF len = 0 THEN Zero
  ELSE IF len >= 54
  THEN RoundedTo(s, wh \div 2^(len - 53),
                 wl \div 2^(len - 53) + (wh % 2^(len - 53)) * 2^(80 - len),
                 e + len - 53, 2 * (wl % 2^(len - 53)), 2^(len - 53), st)
  ELSE IF len <= 26 THEN Dbl(s, wl * 2^(26 - len), 0, e - (53 - len))
  ELSE Dbl(s, wh * 2^(53 - len) + wl \div 2^(len - 26),
           (wl % 2^(len - 26)) * 2^(53 - len), e - (53 - len))

\* The number nearest to s * (wh * 2^27 + wl [+ a fraction, if st]) * 2^e.
\* When st holds the integer has more than 53 bits.
Round(s, wh, wl, st, e) ==
  RoundLen(s, wh, wl, st, e,
           BitLen(IF wh > 0 THEN wh ELSE wl) + (IF wh > 0 THEN 27 ELSE 0))

\* |a| < |b|, for numbers that are not NaN
MagLt(a, b) ==
  a.e < b.e \/ (a.e = b.e /\ (a.hi < b.hi \/ (a.hi = b.hi /\ a.lo < b.lo)))

\* The sum wh * 2^27 + l of two mantissas, l a sum or a difference of low
\* words, rounded
SumRounded(s, e, st, wh, l) ==
  Round(s, IF l < 0 THEN wh - 1 ELSE wh + l \div B27,
        IF l < 0 THEN l + B27 ELSE l % B27, st, e)

AddParts(s, e, same, ah, al, bh, bl, st) ==
  SumRounded(s, e, st, IF same THEN ah + bh ELSE ah - bh,
             IF same THEN al + bl ELSE al - bl - (IF st THEN 1 ELSE 0))

\* (yh, yl) shifted down by d bits, the bits shifted out as one sticky bit
AddShifted(s, e, same, ah, al, yh, yl, d) ==
  AddParts(s, e, same, ah, al,
           IF d < 27 THEN yh \div 2^d
           ELSE IF d < 57 THEN (yh \div 2^(d - 27)) \div B27 ELSE 0,
           IF d < 27 THEN yl \div 2^d + (yh % 2^d) * 2^(27 - d)
           ELSE IF d < 57 THEN (yh \div 2^(d - 27)) % B27 ELSE 0,
           IF d < 27 THEN yl % 2^d # 0
           ELSE IF d < 57 THEN yh % 2^(d - 27) # 0 \/ yl # 0 ELSE TRUE)

\* x + y for finite x, y other than 0 with |x| >= |y|: both mantissas with
\* three more bits, y's shifted to x's exponent
AddMag(x, y) ==
  AddShifted(x.s, x.e - 3, x.s = y.s,
             x.hi * 8 + x.lo \div 16777216, (x.lo % 16777216) * 8,
             y.hi * 8 + y.lo \div 16777216, (y.lo % 16777216) * 8, x.e - y.e)

QNeg(a) == IF IsZero(a) THEN a ELSE [a EXCEPT !.s = -a.s]

AddOrdered(a, b, swap) == AddMag(IF swap THEN b ELSE a, IF swap THEN a ELSE b)

QAdd(a, b) ==
  IF IsNaN(a) \/ IsNaN(b) THEN NaN
  ELSE IF IsInfinite(a) THEN (IF IsInfinite(b) /\ a.s # b.s THEN NaN ELSE a)
  ELSE IF IsInfinite(b) \/ IsZero(a) THEN b
  ELSE IF IsZero(b) THEN a
  ELSE AddOrdered(a, b, MagLt(a, b))

QSub(a, b) == QAdd(a, QNeg(b))

\* The four 14-bit limbs of a mantissa, the lowest first
Limbs(a) ==
  <<a.lo % 16384, a.lo \div 16384 + (a.hi % 2) * 8192,
    (a.hi \div 2) % 16384, a.hi \div 32768>>

\* The 106-bit product of two mantissas by limbs x, y, column by column
\* from the lowest: its upper 57 bits rounded, the lower 49 as the sticky
\* bit st.
MulTop(s, e, st, wl, t5, t6) ==
  Round(s, (t5 % 16384) \div 64 + (t6 % 16384) * 256 + (t6 \div 16384) * 4194304,
        wl + ((t5 % 16384) % 64) * 2097152, st, e)

MulColumn5(s, e, x, y, st, w0, t4) ==
  MulTop(s, e, st, w0 + (t4 % 16384) * 128,
         x[3] * y[4] + x[4] * y[3] + t4 \div 16384,
         x[4] * y[4] + (x[3] * y[4] + x[4] * y[3] + t4 \div 16384) \div 16384)

MulColumn4(s, e, x, y, st, t3) ==
  MulColumn5(s, e, x, y, st \/ (t3 % 16384) % 128 # 0, (t3 % 16384) \div 128,
             x[2] * y[4] + x[3] * y[3] + x[4] * y[2] + t3 \div 16384)

MulColumn3(s, e, x, y, st, t2) ==
  MulColumn4(s, e, x, y, st \/ t2 % 16384 # 0,
             x[1] * y[4] + x[2] * y[3] + x[3] * y[2] + x[4] * y[1]
               + t2 \div 16384)

MulColumn2(s, e, x, y, st, t1) ==
  MulColumn3(s, e, x, y, st \/ t1 % 16384 # 0,
             x[1] * y[3] + x[2] * y[2] + x[3] * y[1] + t1 \div 16384)

MulColumn1(s, e, x, y, t0) ==
  MulColumn2(s, e, x, y, t0 % 16384 # 0,
             x[1] * y[2] + x[2] * y[1] + t0 \div 16384)

MulLimbs(s, e, x, y) == MulColumn1(s, e, x, y, x[1] * y[1])

\* a * b for finite a, b other than 0
MulMag(a, b) == MulLimbs(a.s * b.s, a.e + b.e + 49, Limbs(a), Limbs(b))

QMul(a, b) ==
  IF IsNaN(a) \/ IsNaN(b) THEN NaN
  ELSE IF IsInfinite(a) \/ IsInfinite(b)
  THEN (IF IsZero(a) \/ IsZero(b) THEN NaN ELSE Infinity(a.s * b.s))
  ELSE IF IsZero(a) \/ IsZero(b) THEN Zero
  ELSE MulMag(a, b)

\* Whether 16 * (rh, rl) >= k * (bh, bl), for 1 <= k <= 15
DivFits(rh, rl, k, bh, bl) ==
  \/ 16 * rh + rl \div 8388608 > k * bh + (k * bl) \div B27
  \/ /\ 16 * rh + rl \div 8388608 = k * bh + (k * bl) \div B27
     /\ (rl % 8388608) * 16 >= ((k * bl) % B27)

\* The quotient bits of a long division, four at a time: n more bits of
\* (rh, rl) / (bh, bl), the remainder below the divisor, the quotient so
\* far in (qh, ql).  The next four bits are the number of multiples of the
\* divisor that 16 * remainder holds: the quotient of the high words, with
\* the divisor's rounded up, or one more.
RECURSIVE DivBits(_, _, _, _, _, _, _)
DivDigit(n, rh, rl, qh, ql, bh, bl, d) ==
  DivBits(n - 4,
          (16 * rh + rl \div 8388608) - d * bh - (d * bl) \div B27
            - (IF (rl % 8388608) * 16 < ((d * bl) % B27) THEN 1 ELSE 0),
          ((rl % 8388608) * 16 - ((d * bl) % B27))
            + (IF (rl % 8388608) * 16 < ((d * bl) % B27) THEN B27 ELSE 0),
          16 * qh + ql \div 8388608, (ql % 8388608) * 16 + d, bh, bl)

DivEstimate(n, rh, rl, qh, ql, bh, bl, d) ==
  DivDigit(n, rh, rl, qh, ql, bh, bl,
           IF d < 15 /\ DivFits(rh, rl, d + 1, bh, bl) THEN d + 1 ELSE d)

DivBits(n, rh, rl, qh, ql, bh, bl) ==
  IF n = 0 \/ qh < 0 \/ ql < 0 THEN <<qh, ql, rh # 0 \/ rl # 0>>
  ELSE DivEstimate(n, rh, rl, qh, ql, bh, bl,
                   (16 * rh + rl \div 8388608) \div (bh + 1))

RoundQuotient(s, e, q) == Round(s, q[1], q[2], q[3], e)

DivLong(s, e, a, b, ge) ==
  RoundQuotient(s, e,
    DivBits(56,
            IF ~ge THEN a.hi
            ELSE IF a.lo >= b.lo THEN a.hi - b.hi ELSE a.hi - b.hi - 1,
            IF ~ge THEN a.lo
            ELSE IF a.lo >= b.lo THEN a.lo - b.lo ELSE a.lo - b.lo + B27,
            0, IF ge THEN 1 ELSE 0, b.hi, b.lo))

\* The division by a divisor of at most 14 significant bits, k, in limbs of
\* 14 bits from the highest
DivLimb0(s, e, k, wh, wl, t0) == Round(s, wh, wl + t0 \div k, t0 % k # 0, e)

DivLimb1(s, e, k, wh, t1) ==
  DivLimb0(s, e, k, wh + (t1 \div k) \div 8192, ((t1 \div k) % 8192) * 16384,
           (t1 % k) * 16384)

DivLimb2(s, e, k, alo, wh, t2) ==
  DivLimb1(s, e, k, wh + (t2 \div k) * 2, (t2 % k) * 16384 + (alo % 2048) * 8)

DivLimb3(s, e, k, alo, wh, t3) ==
  DivLimb2(s, e, k, alo, wh + (t3 \div k) * 32768,
           (t3 % k) * 16384 + ((alo \div 2048) % 16384))

DivLimb4(s, e, k, ahi, alo, c4) ==
  DivLimb3(s, e, k, alo, (c4 \div k) * 536870912,
           (c4 % k) * 16384 + (ahi % 4096) * 4 + alo \div 33554432)

\* a / b for finite a, b other than 0: floor(mantissa(a) * 2^56 /
\* mantissa(b)) and whether a remainder is left.  A divisor of at most 14
\* significant bits is divided by in limbs of 14 bits, any other bit by bit.
DivMag(a, b) ==
  IF b.lo = 0 /\ b.hi % 4096 = 0
  THEN DivLimb4(a.s * b.s, a.e - b.e - 56, b.hi \div 4096, a.hi, a.lo,
                a.hi \div 4096)
  ELSE DivLong(a.s * b.s, a.e - b.e - 56, a, b,
               ~(a.hi < b.hi \/ (a.hi = b.hi /\ a.lo < b.lo)))

QDiv(a, b) ==
  IF IsNaN(a) \/ IsNaN(b) THEN NaN
  ELSE IF IsInfinite(a) THEN (IF IsInfinite(b) THEN NaN ELSE Infinity(a.s * b.s))
  ELSE IF IsInfinite(b) THEN Zero
  ELSE IF IsZero(b) THEN (IF IsZero(a) THEN NaN ELSE Infinity(a.s))
  ELSE IF IsZero(a) THEN Zero
  ELSE DivMag(a, b)

\* a < b and a <= b of JavaScript: false when either is NaN
QLt(a, b) ==
  /\ ~IsNaN(a) /\ ~IsNaN(b)
  /\ IF a.s # b.s THEN a.s < b.s
     ELSE IF a.s = 1 THEN MagLt(a, b) ELSE MagLt(b, a)

QLe(a, b) == ~IsNaN(a) /\ ~IsNaN(b) /\ ~QLt(b, a)

\* Math.min / Math.max / Math.abs
QMin(a, b) ==
  IF IsNaN(a) \/ IsNaN(b) THEN NaN ELSE IF QLt(b, a) THEN b ELSE a

QMax(a, b) ==
  IF IsNaN(a) \/ IsNaN(b) THEN NaN ELSE IF QLt(a, b) THEN b ELSE a

QAbs(a) == IF a.s = -1 THEN [a EXCEPT !.s = 1] ELSE a

\* A finite a other than 0 with its fraction, of t = -a.e bits, cut off,
\* and whether there was a fraction
TruncatedAt(a, t) ==
  IF t <= 0 THEN <<a, FALSE>>
  ELSE IF t >= 53 THEN <<Zero, TRUE>>
  ELSE IF t >= 27
  THEN <<[a EXCEPT !.hi = @ - (@ % 2^(t - 27)), !.lo = 0],
         a.hi % 2^(t - 27) # 0 \/ a.lo # 0>>
  ELSE <<[a EXCEPT !.lo = @ - (@ % 2^t)], a.lo % 2^t # 0>>

Truncated(a) == TruncatedAt(a, -a.e)

\* The number an integer i is, |i| < 2^31
ZQ(i) ==
  IF i = 0 THEN Zero
  ELSE Round(IF i < 0 THEN -1 ELSE 1, 0, IF i < 0 THEN -i ELSE i, FALSE, 0)

\* The number the literal n/d denotes, e.g. Q(2, 10) for 0.2
Q(n, d) == QDiv(ZQ(n), ZQ(d))

\* Math.floor / Math.ceil: p is a with its fraction cut off
FloorOf(a, p) == IF a.s = 1 \/ ~p[2] THEN p[1] ELSE QSub(p[1], One)

QFloor(a) ==
  IF IsNaN(a) \/ IsInfinite(a) \/ IsZero(a) THEN a ELSE FloorOf(a, Truncated(a))

CeilOf(a, p) == IF a.s = -1 \/ ~p[2] THEN p[1] ELSE QAdd(p[1], One)

QCeil(a) ==
  IF IsNaN(a) \/ IsInfinite(a) \/ IsZero(a) THEN a ELSE CeilOf(a, Truncated(a))

\* The C conversion (int) a, for a finite a with |a| < 2^31
TruncOf(s, p, t) ==
  IF IsZero(p) THEN 0
  ELSE IF t >= 27 THEN s * (p.hi \div 2^(t - 27))
  ELSE s * (p.hi * 2^(27 - t) + p.lo \div 2^t)

QTrunc(a) == IF IsZero(a) THEN 0 ELSE TruncOf(a.s, Truncated(a)[1], -a.e)

\* ---- Math.exp (l.348-349): V8's ieee754::exp, the fdlibm algorithm ----
Two == Dbl(1, B25, 0, -51)

Half == Dbl(1, B25, 0, -53)

E == Dbl(1, 45605201, 51664745, -51)

ln2HI == Dbl(1, 46516319, 115343360, -53)

ln2LO == Dbl(1, 55000550, 91831414, -85)

invln2 == Dbl(1, 48408812, 86737662, -52)

P1 == Dbl(1, 44739242, 89478462, -55)

P2 == Dbl(-1, 47721858, 113163667, -61)

P3 == Dbl(1, 36359509, 119922220, -66)

P4 == Dbl(-1, 58173496, 97676273, -72)

P5 == Dbl(1, 46591278, 46048464, -77)

o_threshold == Dbl(1, 46516319, 117062127, -43)

u_threshold == Dbl(-1, 48833050, 86847569, -43)

\* The least doubles whose high word is above 0x3fd62e42 (0.5 ln 2) and
\* at least 0x3FF0A2B2 (1.5 ln 2), and 2^-28 (high word 0x3e300000)
HalfLn2Bound == Dbl(1, 46516320, 0, -54)

ThreeHalfLn2Bound == Dbl(1, 34887232, 0, -52)

TwoM28 == Dbl(1, B25, 0, -80)

\* y * 2^k
Scaled(y, k) == [y EXCEPT !.e = @ + k]

\* c = x - t*(P1+t*(P2+t*(P3+t*(P4+t*P5)))) for t = x*x
ExpPoly(x, t) ==
  QSub(x, QMul(t, QAdd(P1, QMul(t, QAdd(P2, QMul(t,
    QAdd(P3, QMul(t, QAdd(P4, QMul(t, P5))))))))))

ExpOfPoly(x, hi, lo, k, c) ==
  IF k = 0
  THEN QSub(One, QSub(QDiv(QMul(x, c), QSub(c, Two)), x))
  ELSE Scaled(QSub(One, QSub(QSub(lo, QDiv(QMul(x, c), QSub(Two, c))), hi)), k)

\* exp(r) * 2^k from the reduced argument x = hi - lo
ExpReduced(x, hi, lo, k) == ExpOfPoly(x, hi, lo, k, ExpPoly(x, QMul(x, x)))

ExpParts(hi, lo, k) == ExpReduced(QSub(hi, lo), hi, lo, k)

\* hi = x - k*ln2HI, lo = k*ln2LO.  For |x| < 1.5 ln 2 the algorithm takes
\* k = 1 or -1 and the two products from a table: they are ln2HI and
\* ln2LO with the sign of k, which the products are as well.
ExpSplit(x, t, k) == ExpParts(QSub(x, QMul(t, ln2HI)), QMul(t, ln2LO), k)

ExpScale(x, k) == ExpSplit(x, ZQ(k), k)

ExpLarge(x, ax) ==
  IF x = One THEN E
  ELSE ExpScale(x, IF QLt(ax, ThreeHalfLn2Bound) THEN x.s
                   ELSE QTrunc(QAdd(QMul(invln2, x),
                                    IF x.s = 1 THEN Half ELSE QNeg(Half))))

Exp(x) ==
  IF IsNaN(x) THEN NaN
  ELSE IF IsInfinite(x) THEN (IF x.s = 1 THEN x ELSE Zero)
  ELSE IF QLt(o_threshold, x) THEN Infinity(1)
  ELSE IF QLt(x, u_threshold) THEN Zero
  ELSE IF QLe(HalfLn2Bound, QAbs(x)) THEN ExpLarge(x, QAbs(x))
  ELSE IF IsZero(x) \/ QLt(QAbs(x), TwoM28) THEN QAdd(One, x)
  ELSE ExpReduced(x, Zero, Zero, 0)

IAbs(i) == IF i < 0 THEN -i ELSE i

IMin(a, b) == IF b < a THEN b ELSE a

IMax(a, b) == IF a < b THEN b ELSE a

(***************************************************************************)
(* Strings are sequences of one-character strings, so that endsWith and    *)
(* parseFloat are computed rather than assumed.                            *)
(***************************************************************************)
Digits == <<"0", "1", "2", "3", "4", "5", "6", "7", "8", "9">>

IsDigit(c) == \E k \in 1..Len(Digits) : Digits[k] = c

DigitValue(c) == (CHOOSE k \in 1..Len(Digits) : Digits[k] = c) - 1

EndsWith(s, c) == Len(s) > 0 /\ s[Len(s)] = c

\* Index of the first position >= i of s that holds no digit.
RECURSIVE DigitsEnd(_, _)
DigitsEnd(s, i) == IF i <= Len(s) /\ IsDigit(s[i]) THEN DigitsEnd(s, i + 1) ELSE i

\* Value of the digits s[i..j-1] read as a decimal integer.
RECURSIVE DigitsValue(_, _, _)
DigitsValue(s, i, j) ==
  IF j <= i THEN 0 ELSE 10 * DigitsValue(s, i, j - 1) + DigitValue(s[j - 1])

RECURSIVE Pow10(_)
Pow10(k) == IF k = 0 THEN 1 ELSE 10 * Pow10(k - 1)

RECURSIVE SkipSpaces(_, _)
SkipSpaces(s, i) == IF i <= Len(s) /\ s[i] = " " THEN SkipSpaces(s, i + 1) ELSE i

\* parseFloat: leading blanks, an optional sign, digits, an optional
\* fraction; the longest such prefix is converted and the rest ignored.
\* NaN when the prefix holds no digit.  (Exponents and "Infinity" are not
\* modelled; the digits read stay below 2^31.)
ParseSigned(neg, mag) == IF neg THEN QNeg(mag) ELSE mag

\* The digits s[p1..p2-1] and the fraction digits s[p2+1..p3-1]
ParseValue(s, neg, p1, p2, p3) ==
  IF (p2 - p1) + (p3 - p2 - 1) = 0 THEN NaN
  ELSE ParseSigned(neg, Q(DigitsValue(s, p1, p2) * Pow10(p3 - p2 - 1)
                            + DigitsValue(s, p2 + 1, p3), Pow10(p3 - p2 - 1)))

ParseFraction(s, neg, p1, p2) ==
  ParseValue(s, neg, p1, p2,
             IF p2 <= Len(s) /\ s[p2] = "." THEN DigitsEnd(s, p2 + 1)
             ELSE p2 + 1)

ParseDigits(s, neg, p1) == ParseFraction(s, neg, p1, DigitsEnd(s, p1))

ParseSign(s, p0) ==
  ParseDigits(s, p0 <= Len(s) /\ s[p0] = "-",
              IF p0 <= Len(s) /\ s[p0] \in {"-", "+"} THEN p0 + 1 ELSE p0)

ParseFloat(s) == ParseSign(s, SkipSpaces(s, 1))

(***************************************************************************)
(* Configuration.                                                          *)
(***************************************************************************)
\* 0.2
Fifth == Dbl(1, 53687091, 26843546, -55)

\* A number-valued peekAmount, and a string-valued one.
NumberAmount(q) == [type |-> "number", value |-> q]

StringAmount(s) == [type |-> "string", value |-> s]

defaultConfig ==
  [ peek           |-> FALSE,
    peekAmount     |-> StringAmount(<<"2", "0", "%">>),
    gap            |-> 24,
    showArrows     |-> TRUE,
    arrowPosition  |-> "inside",
    arrowSize      |-> "medium",
    enableDrag     |-> TRUE,
    dragThreshold  |-> Fifth,
    breakpoints    |-> [large |-> 4, medium |-> 3, small |-> 1],
    springConfig   |-> [stiffness |-> 150, damping |-> 25, mass |-> 1],
    virtualization |-> [enabled |-> TRUE, overscan |-> 2] ]

\* const sliderConfig = { ...defaultConfig, ...config }
SliderConfig(config) ==
  [k \in DOMAIN defaultConfig \cup DOMAIN config |->
     IF k \in DOMAIN config THEN config[k] ELSE defaultConfig[k]]

\* responsiveBreakpoints is undefined unless the caller's config gives it.
ResponsiveBreakpoints(c) ==
  IF "responsiveBreakpoints" \in DOMAIN c THEN c.responsiveBreakpoints ELSE <<>>

\* virtualization.overscan ?? 2
Overscan(c) ==
  IF "overscan" \in DOMAIN c.virtualization THEN c.virtualization.overscan ELSE 2

\* breakpoints?.small ?? 1 : the initial value of the visibleItems cell
InitialVisibleItems(c) ==
  IF "small" \in DOMAIN c.breakpoints THEN c.breakpoints.small ELSE 1

(***************************************************************************)
(* getVisibleItemsEnhanced                                                 *)
(***************************************************************************)
\* Array.prototype.sort with (a, b) => b.width - a.width: a stable sort by
\* descending width, here by insertion.
\* The insertion of a sort by ascending width
RECURSIVE InsertAsc(_, _)
InsertAsc(sorted, bp) ==
  IF sorted = <<>> THEN <<bp>>
  ELSE IF Head(sorted).width <= bp.width
       THEN <<Head(sorted)>> \o InsertAsc(Tail(sorted), bp)
       ELSE <<bp>> \o sorted

RECURSIVE InsertDesc(_, _)
InsertDesc(sorted, bp) ==
  IF sorted = <<>> THEN <<bp>>
  ELSE IF Head(sorted).width >= bp.width
       THEN <<Head(sorted)>> \o InsertDesc(Tail(sorted), bp)
       ELSE <<bp>> \o sorted

RECURSIVE SortDesc(_)
SortDesc(bps) ==
  IF bps = <<>> THEN <<>>
  ELSE InsertDesc(SortDesc(SubSeq(bps, 1, Len(bps) - 1)), bps[Len(bps)])

\* sortedBreakpoints.find(bp => width >= bp.width)?.items, or the items of
\* the last breakpoint
FindBreakpoint(width, sortedBreakpoints, matching) ==
  IF matching # {}
  THEN sortedBreakpoints[CHOOSE k \in matching : \A j \in matching : k <= j].items
  ELSE sortedBreakpoints[Len(sortedBreakpoints)].items

SortedBreakpoint(width, sortedBreakpoints) ==
  FindBreakpoint(width, sortedBreakpoints,
                 {k \in 1..Len(sortedBreakpoints) :
                    width >= sortedBreakpoints[k].width})

\* { ...defaultBreakpoints, ...breakpoints }
MergedBreakpoints(defaultBreakpoints, breakpoints) ==
  [k \in DOMAIN defaultBreakpoints |->
     IF k \in DOMAIN breakpoints THEN breakpoints[k] ELSE defaultBreakpoints[k]]

WidthBreakpoint(width, mergedBreakpoints) ==
  IF width >= 1280 THEN mergedBreakpoints.large
  ELSE IF width >= 1024 THEN mergedBreakpoints.large
  ELSE IF width >= 768 THEN mergedBreakpoints.medium
  ELSE IF width >= 640 THEN mergedBreakpoints.small
  ELSE mergedBreakpoints.small

GetVisibleItemsEnhanced(width, breakpoints, responsiveBreakpoints) ==
  IF Len(responsiveBreakpoints) > 0
  THEN SortedBreakpoint(width, SortDesc(responsiveBreakpoints))
  ELSE WidthBreakpoint(width,
         MergedBreakpoints([large  |-> IF width >= 1280 THEN 4 ELSE 3,
                            medium |-> IF width >= 768 THEN 3 ELSE 2,
                            small  |-> IF width >= 640 THEN 2 ELSE 1],
                           breakpoints))

(***************************************************************************)
(* calculatePeekWidth, getItemWidth and the index -> offset formula        *)
(***************************************************************************)
\* (itemWidth * parseFloat(peekAmount)) / 100, with
\* itemWidth = (width - (visibleItems - 1) * gap) / visibleItems
CalculatePeekWidth(c, width, visible) ==
  IF ~c.peek THEN Zero
  ELSE IF c.peekAmount.type = "number" THEN ZQ(c.peekAmount.value)
  ELSE IF EndsWith(c.peekAmount.value, "%")
       THEN LET itemWidth == Q(width - (visible - 1) * c.gap, visible)
            IN  QDiv(QMul(itemWidth, ParseFloat(c.peekAmount.value)), ZQ(100))
       ELSE Zero

GetItemWidth(c, width, peek, visible) ==
  IF width = 0 THEN Zero
  ELSE LET peekSpace      == IF c.peek THEN QMul(peek, ZQ(2)) ELSE Zero
           availableWidth == QSub(ZQ(width), peekSpace)
       IN  QDiv(QSub(availableWidth, ZQ(c.gap * (visible - 1))), ZQ(visible))

\* The offset with the gap left out: -(index * itemWidth) + (peek ? ...)
OffsetOfIndexNoGap(c, index, itemWidth, peek) ==
  QAdd(QNeg(QMul(ZQ(index), itemWidth)), IF c.peek THEN peek ELSE Zero)

\* -(index * (itemWidth + gap)) + (peek ? peekWidth : 0)
OffsetOfIndex(c, index, itemWidth, peek) ==
  QAdd(QNeg(QMul(ZQ(index), QAdd(itemWidth, ZQ(c.gap)))),
       IF c.peek THEN peek ELSE Zero)

(***************************************************************************)
(* The easing curve of animateToOffset                                     *)
(***************************************************************************)
\* const progress = Math.min(elapsed / 300, 1)
Progress(elapsed) == QMin(Q(elapsed, 300), One)

\* springProgress * (1 - Math.exp(-damping * progress)), with
\* springProgress = 1 - Math.exp((-stiffness * progress) / mass)
DampedProgress(spring, progress) ==
  LET springProgress ==
        QSub(One, Exp(QDiv(QMul(ZQ(-spring.stiffness), progress),
                             ZQ(spring.mass))))
  IN  QMul(springProgress,
           QSub(One, Exp(QMul(ZQ(-spring.damping), progress))))

(***************************************************************************)
(* The mounted instances that are explored: props (items, defaultIndex,    *)
(* config), the widths the container takes during the instance's life and  *)
(* those of them it has when the instance mounts.                          *)
(***************************************************************************)
EmptyConfig == [k \in {} |-> 0]

\* <DynamicSlider items={...} /> with the library's defaults
PropsDefaults ==
  [ items        |-> <<1, 2, 3, 4>>,
    defaultIndex |-> 0,
    config       |-> EmptyConfig,
    widths       |-> {0, 768},
    mountWidths  |-> {0, 768},
    maxInputs    |-> MaxInputs ]

\* const sliderConfig of ExampleUsage
ExampleConfig ==
  [ gap            |-> 8,
    peek           |-> TRUE,
    peekAmount     |-> StringAmount(<<"1", "0", "%">>),
    breakpoints    |-> [large |-> 4, medium |-> 3, small |-> 2],
    showArrows     |-> TRUE,
    arrowPosition  |-> "outside",
    enableDrag     |-> TRUE,
    dragThreshold  |-> Fifth,
    virtualization |-> [enabled |-> TRUE, overscan |-> 2],
    springConfig   |-> [stiffness |-> 150, damping |-> 25, mass |-> 2] ]

\* ExampleUsage: ten items with the ids 1..10
PropsExample ==
  [ items        |-> <<1, 2, 3, 4, 5, 6, 7, 8, 9, 10>>,
    defaultIndex |-> 0,
    config       |-> ExampleConfig,
    widths       |-> {600, 1024},
    mountWidths  |-> {600, 1024},
    maxInputs    |-> MaxInputs ]

\* Four items the last two of which share an id, under the configuration
\* of ExampleUsage without arrows and without drag
PropsSharedId ==
  [ items        |-> <<1, 2, 3, 3>>,
    defaultIndex |-> 0,
    config       |-> [k \in DOMAIN ExampleConfig |->
                        IF k \in {"showArrows", "enableDrag"} THEN FALSE
                        ELSE ExampleConfig[k]],
    widths       |-> {600, 1024},
    mountWidths  |-> {600},
    maxInputs    |-> MaxInputs ]

\* A responsive breakpoint list, a soft spring, no overscan, mounted on
\* its last item
PropsResponsive ==
  [ items        |-> <<1, 2, 3>>,
    defaultIndex |-> 2,
    config       |->
      [ gap                   |-> 10,
        responsiveBreakpoints |-> << [width |-> 0, items |-> 1],
                                     [width |-> 300, items |-> 2] >>,
        virtualization        |-> [enabled |-> TRUE, overscan |-> 0],
        springConfig          |-> [stiffness |-> 150, damping |-> 3, mass |-> 1] ],
    widths       |-> {40, 250},
    mountWidths  |-> {40, 250},
    maxInputs    |-> MaxInputs ]

\* Fewer items than fit, a numeric peek, no virtualization
PropsFewItems ==
  [ items        |-> <<1, 2>>,
    defaultIndex |-> 0,
    config       |->
      [ peek           |-> TRUE,
        peekAmount     |-> NumberAmount(24),
        virtualization |-> [enabled |-> FALSE] ],
    widths       |-> {768},
    mountWidths  |-> {768},
    maxInputs    |-> MaxInputs ]

\* Ten items, four of them visible at any width, 100 wide at width 424:
\* (424 - 8 * 3) / 4
PropsTenItems ==
  [ items        |-> <<1, 2, 3, 4, 5, 6, 7, 8, 9, 10>>,
    defaultIndex |-> 0,
    config       |->
      [ gap                   |-> 8,
        responsiveBreakpoints |-> << [width |-> 0, items |-> 4] >>,
        enableDrag            |-> FALSE,
        virtualization        |-> [enabled |-> TRUE, overscan |-> 1] ],
    widths       |-> {424},
    mountWidths  |-> {424},
    maxInputs    |-> MaxCalls ]

\* Instances that differ in their responsiveBreakpoints only: every list of
\* at most MaxBreakpoints entries.  The width-tier table gives 4 at every
\* width, which no entry of a list does.
MaxBreakpoints == 2

BreakpointEntries == [width : {0, 300, 600}, items : {1, 2}]

BreakpointLists ==
  UNION {[1..n -> BreakpointEntries] : n \in 0..MaxBreakpoints}

PropsBreakpoints(list) ==
  [ items        |-> <<1, 2, 3>>,
    defaultIndex |-> 0,
    config       |->
      [ responsiveBreakpoints |-> list,
        breakpoints           |-> [large |-> 4, medium |-> 4, small |-> 4],
        virtualization        |-> [enabled |-> FALSE] ],
    widths       |-> {200, 300, 700},
    mountWidths  |-> {200, 300, 700},
    maxInputs    |-> MaxInputs ]

\* Instances that differ in peek and peekAmount only: every string of at
\* most MaxPeekChars characters of PeekChars, and two numbers.
MaxPeekChars == 2

PeekChars == {"5", "a", "%"}

PeekStrings == UNION {[1..n -> PeekChars] : n \in 0..MaxPeekChars}

PeekNumbers == {0, 24}

PropsPeek(peek, peekAmount) ==
  [ items        |-> <<1, 2, 3>>,
    defaultIndex |-> 0,
    config       |->
      [ peek           |-> peek,
        peekAmount     |-> peekAmount,
        virtualization |-> [enabled |-> FALSE] ],
    widths       |-> {768, 1024},
    mountWidths  |-> {768, 1024},
    maxInputs    |-> MaxInputs ]

\* An instance is named by a tuple: a name, then the inputs it is made from.
MainInstances ==
  {<<"defaults">>, <<"sharedId">>, <<"responsive">>, <<"fewItems">>}

BreakpointInstances == {<<"breakpoints", list>> : list \in BreakpointLists}

PeekInstances ==
  {<<"peekString", peek, s>> : peek \in BOOLEAN, s \in PeekStrings}
    \cup {<<"peekNumber", peek, n>> : peek \in BOOLEAN, n \in PeekNumbers}

InstanceProps(k) ==
  CASE k[1] = "defaults"    -> PropsDefaults
    [] k[1] = "example"     -> PropsExample
    [] k[1] = "sharedId"    -> PropsSharedId
    [] k[1] = "responsive"  -> PropsResponsive
    [] k[1] = "fewItems"    -> PropsFewItems
    [] k[1] = "tenItems"    -> PropsTenItems
    [] k[1] = "breakpoints" -> PropsBreakpoints(k[2])
    [] k[1] = "peekString"  -> PropsPeek(k[2], StringAmount(k[3]))
    [] k[1] = "peekNumber"  -> PropsPeek(k[2], NumberAmount(k[3]))

Instances ==
  [k \in MainInstances \cup {<<"example">>, <<"tenItems">>}
          \cup BreakpointInstances \cup PeekInstances |-> InstanceProps(k)]

\* clientX of the pointer events
DragXs == {0, 48, 50}

\* Milliseconds between the request of a frame and its callback's timestamp
FrameDelays == {150, 300}

\* The identifiers scrollToItem is called with: the last item's (which in
\* one instance an earlier item shares) and one that matches no item.
ScrollIds(its) == {its[Len(its)], 0}

\* The numbers scrollToIndex is called with: the method takes any number,
\* here a negative one, the index of the second item and one beyond the
\* last item.
ScrollIndices(its) == {-7, 1, Len(its) + 1}

\* throttle(..., 16): the wait of the throttled updateDimensions, and the
\* milliseconds since the last call of the throttled function, and since
\* updateDimensions last ran, at which the ResizeObserver calls it
ThrottleWait == 16

ResizeDelays == {5, 16}

(***************************************************************************)
(* State                                                                   *)
(***************************************************************************)
VARIABLES
  instance,        \* which of Instances is mounted (its props never change)
  offsetWidth,     \* containerRef.current.offsetWidth
  containerWidth,  \* useState(0)
  currentIndex,    \* useState(defaultIndex)
  isDragging,      \* useState(false)
  visibleItems,    \* useState(breakpoints?.small ?? 1)
  sliderOffset,    \* useState(0)
  peekWidth,       \* useState(0)
  visibleRange,    \* useState({ start: 0, end: 0 })
  rendered,        \* the values of the seven cells in the last committed
                   \* render: what the handlers, the handle's methods and
                   \* the effects of that render close over
  sync,            \* the cells a discrete event has set and React is about
                   \* to render synchronously
  effectDeps,      \* whether the mount effects have run, and the state of
                   \* the render whose effects ran last
  throttlePending, \* the throttled updateDimensions holds a trailing call
  dragStartRef,    \* useRef(0)
  dragCurrentRef,  \* useRef(0)
  animationRef,    \* useRef<number>(0)
  raf,             \* the browser's pending animation-frame requests
  lastSlideChange, \* the arguments onSlideChange was last called with
  slideChangeCalls, \* history: how many times onSlideChange has been called
  animsStarted,    \* history: how many animations animateToOffset has started
  inputs,          \* history: how many input events have been handled
  moves,           \* history: how many of them were pointer moves
  staleWrite,      \* history: a frame of a superseded animation wrote the offset
  finished,        \* history: the animation whose frame of progress 1 ran
                   \* last (0 when none has)
  unmatchedDragStarts, \* history: the calls of onDragStart minus those of
                   \* onDragEnd
  last,            \* history: the last input handled, its arguments, and the
                   \* index, items.length - visibleItems and getItemWidth()
                   \* of the render it ran in
  carousel         \* the HorizontalCarousel: products, isInitialized, the
                   \* selected scroll snap, visibleSlides, and the
                   \* isInitialized its registered listeners close over

\* const sliderConfig = { ...defaultConfig, ...config }, per instance
SliderConfigs == [i \in DOMAIN Instances |-> SliderConfig(Instances[i].config)]

cfg == SliderConfigs[instance]

\* props.items, as the sequence of the items' ids
items == Instances[instance].items

\* The widths the container of the mounted instance takes
widths == Instances[instance].widths

vars ==
  <<instance, offsetWidth, containerWidth, currentIndex, isDragging,
    visibleItems, sliderOffset, peekWidth, visibleRange, rendered, sync,
    effectDeps, throttlePending, dragStartRef, dragCurrentRef, animationRef,
    raf, lastSlideChange, slideChangeCalls, animsStarted, inputs, moves,
    staleWrite, finished, unmatchedDragStarts, last, carousel>>

\* What no method of the imperative handle writes, and what the dimension
\* update writes
untouched ==
  <<instance, isDragging, throttlePending, dragStartRef, dragCurrentRef,
    moves, staleWrite, finished, unmatchedDragStarts, carousel>>

dimensions == <<containerWidth, visibleItems, peekWidth>>

(***************************************************************************)
(* Renders and effects.                                                    *)
(*                                                                         *)
(* A setter of a useState cell queues its value: the cell's variable holds *)
(* the value the next render will have, rendered holds the one of the last *)
(* committed render.  Every function of the component is re-created when   *)
(* the state it reads changes (the dependency lists of l.258-385 name all  *)
(* of it, the handle of l.467-497 has no list), so a handler reads         *)
(* rendered.                                                               *)
(*                                                                         *)
(* The dimension effect (l.281-302) depends on calculatePeekWidth, which   *)
(* is a new function when visibleItems changed: then its cleanup runs      *)
(* (cancelling the frame animationRef holds and the throttled call) and    *)
(* the new effect calls updateDimensions, whose calculatePeekWidth holds   *)
(* the new visibleItems.  The range effect (l.325-330) depends on          *)
(* sliderOffset, containerWidth and calculateVisibleRange, hence on        *)
(* peekWidth and visibleItems too.  (breakpoints, responsiveBreakpoints,   *)
(* virtualization, gap, peek and items are props, which do not change.)    *)
(***************************************************************************)
\* The seven cells with every queued update applied
Cells ==
  [ containerWidth |-> containerWidth,
    currentIndex   |-> currentIndex,
    isDragging     |-> isDragging,
    visibleItems   |-> visibleItems,
    sliderOffset   |-> sliderOffset,
    peekWidth      |-> peekWidth,
    visibleRange   |-> visibleRange ]

\* No update is queued: the last committed render shows the state.
Committed == rendered = Cells

\* The state of the last committed render that the effects depend on
RenderDeps ==
  [ mounted        |-> TRUE,
    sliderOffset   |-> rendered.sliderOffset,
    containerWidth |-> rendered.containerWidth,
    peekWidth      |-> rendered.peekWidth,
    visibleItems   |-> rendered.visibleItems ]

Mounted == effectDeps.mounted

\* The effects of the last committed render have run.
EffectsDone == effectDeps = RenderDeps

\* The body of updateDimensions and of refresh(); visible is the
\* visibleItems of the render whose calculatePeekWidth is called.
UpdateDimensions(width, visible) ==
  /\ containerWidth' = width
  /\ visibleItems' = GetVisibleItemsEnhanced(width, cfg.breakpoints,
                                             ResponsiveBreakpoints(cfg))
  /\ peekWidth' = CalculatePeekWidth(cfg, width, visible)

(***************************************************************************)
(* calculateVisibleRange and the effect that stores its result             *)
(***************************************************************************)
CalculateVisibleRange(c, length, offset, width, peek, visible) ==
  IF ~c.virtualization.enabled THEN [start |-> Zero, end |-> ZQ(length)]
  ELSE LET itemWidth == GetItemWidth(c, width, peek, visible)
           overscan  == ZQ(Overscan(c))
           stride    == QAdd(itemWidth, ZQ(c.gap))
           startIndex ==
             QMax(Zero, QSub(QFloor(QDiv(QNeg(offset), stride)), overscan))
           endIndex ==
             QMin(ZQ(length),
                  QAdd(QCeil(QDiv(QAdd(QNeg(offset), ZQ(width)), stride)),
                       overscan))
       IN  [start |-> startIndex, end |-> endIndex]

\* useEffect(() => { if (virtualization?.enabled) setVisibleRange(...) })
VisibleRangeEffect(c, length, offset, width, peek, visible, range) ==
  IF c.virtualization.enabled
  THEN CalculateVisibleRange(c, length, offset, width, peek, visible)
  ELSE range

\* The range effect of the last committed render
RangeUpdated ==
  visibleRange' = VisibleRangeEffect(cfg, Len(items), rendered.sliderOffset,
                                     rendered.containerWidth,
                                     rendered.peekWidth,
                                     rendered.visibleItems, visibleRange)

(***************************************************************************)
(* HorizontalCarousel (src/vite.config.ts): the window of products that    *)
(* is rendered around the selected scroll snap.  The state of a carousel   *)
(* is the record carousel; a product is named by its position (from 1).    *)
(***************************************************************************)
VIEWPORT_SIZE == 4

BUFFER_SIZE == 4

\* The lists of products go up to this length.
MaxProducts == 14

\* generateData(count)
GenerateData(count) == [k \in 1..count |-> k]

\* a % b of JavaScript, for b > 0: the remainder has the sign of a.
JsRem(a, b) == IF a >= 0 THEN a % b ELSE -((-a) % b)

normalizeIndex(index, length) ==
  IF length = 0 THEN 0 ELSE JsRem(index + length, length)

\* Array.prototype.slice(start, end): a negative index counts from the end,
\* and both are clamped to [0, length].
SliceIndex(length, k) == IF k < 0 THEN IMax(length + k, 0) ELSE IMin(k, length)

Slice(array, start, end) ==
  SubSeq(array, SliceIndex(Len(array), start) + 1, SliceIndex(Len(array), end))

\* getVisibleSlides, with emblaApi.selectedScrollSnap() = selected;
\* initialized stands for emblaApi && isInitialized.
getVisibleSlides(products, initialized, selected) ==
  IF ~initialized \/ Len(products) = 0
  THEN Slice(products, 0, VIEWPORT_SIZE + BUFFER_SIZE)
  ELSE LET totalSlides == Len(products)
           startIndex  == normalizeIndex(selected - BUFFER_SIZE, totalSlides)
           endIndex    == normalizeIndex(selected + VIEWPORT_SIZE + BUFFER_SIZE,
                                         totalSlides)
       IN  IF endIndex <= startIndex
           THEN Slice(products, startIndex, totalSlides)
                  \o Slice(products, 0, endIndex)
           ELSE Slice(products, startIndex, endIndex)

\* No carousel is mounted.
NoCarousel ==
  [products |-> <<>>, isInitialized |-> FALSE, selected |-> 0,
   visibleSlides |-> <<>>, closureInitialized |-> FALSE]

\* The slider's variables, which no step of the carousel changes
sliderVars ==
  <<instance, offsetWidth, containerWidth, currentIndex, isDragging,
    visibleItems, sliderOffset, peekWidth, visibleRange, rendered, sync,
    effectDeps, throttlePending, dragStartRef, dragCurrentRef, animationRef,
    raf, lastSlideChange, slideChangeCalls, animsStarted, inputs, moves,
    staleWrite, finished, unmatchedDragStarts, last>>

\* onInit and onSelect are created by the effect of l.144-167, whose
\* dependencies are [emblaApi, isInitialized]: they hold the isInitialized
\* and the getVisibleSlides of the render the effect last ran in
\* (carousel.closureInitialized).  A handler's updates and the commit that
\* follows are one step, since no other step of the carousel reads the state
\* in between.

\* onInit of the render in which isInitialized is false, called by the
\* effect (emblaApi.internalEngine()) or by emblaApi's "init": it sets
\* isInitialized and stores what getVisibleSlides of that render returns,
\* the first VIEWPORT_SIZE + BUFFER_SIZE products.
EmblaInit ==
  /\ Len(carousel.products) > 0
  /\ ~carousel.isInitialized
  /\ carousel' = [carousel EXCEPT
                    !.isInitialized = TRUE,
                    !.visibleSlides =
                      getVisibleSlides(carousel.products,
                                       carousel.closureInitialized,
                                       carousel.selected)]
  /\ UNCHANGED sliderVars

\* The effect runs again after the commit of isInitialized: it registers the
\* listeners of the new render and calls onInit, which stores the window
\* around the selected snap.
EmblaEffect ==
  /\ Len(carousel.products) > 0
  /\ carousel.isInitialized
  /\ ~carousel.closureInitialized
  /\ carousel' = [carousel EXCEPT
                    !.closureInitialized = TRUE,
                    !.visibleSlides =
                      getVisibleSlides(carousel.products, TRUE,
                                       carousel.selected)]
  /\ UNCHANGED sliderVars

\* emblaApi's "select" with a new selected snap: the registered onSelect
\* updates the window if (isInitialized), the isInitialized of its render.
EmblaSelect(snap) ==
  /\ Len(carousel.products) > 0
  /\ snap # carousel.selected
  /\ carousel' = [carousel EXCEPT
                    !.selected = snap,
                    !.visibleSlides =
                      IF carousel.closureInitialized
                      THEN getVisibleSlides(carousel.products, TRUE, snap)
                      ELSE @]
  /\ UNCHANGED sliderVars


(***************************************************************************)
(* Init: the first committed render of an instance, before any effect.     *)
(***************************************************************************)
FirstRender(i, width) ==
    LET p == Instances[i]
        c == SliderConfigs[i]
    IN  /\ instance = i
        /\ offsetWidth = width
        /\ containerWidth = 0
        /\ currentIndex = p.defaultIndex
        /\ isDragging = FALSE
        /\ visibleItems = InitialVisibleItems(c)
        /\ sliderOffset = Zero
        /\ peekWidth = Zero
        /\ visibleRange = [start |-> Zero, end |-> Zero]
        /\ rendered = [ containerWidth |-> 0,
                        currentIndex   |-> p.defaultIndex,
                        isDragging     |-> FALSE,
                        visibleItems   |-> InitialVisibleItems(c),
                        sliderOffset   |-> Zero,
                        peekWidth      |-> Zero,
                        visibleRange   |-> [start |-> Zero, end |-> Zero] ]
        /\ sync = {}
        /\ effectDeps = [ mounted        |-> FALSE,
                          sliderOffset   |-> Zero,
                          containerWidth |-> 0,
                          peekWidth      |-> Zero,
                          visibleItems   |-> InitialVisibleItems(c) ]
        /\ throttlePending = FALSE
        /\ dragStartRef = 0
        /\ dragCurrentRef = 0
        /\ animationRef = 0
        /\ raf = {}
        /\ lastSlideChange = <<>>
        /\ slideChangeCalls = 0
        /\ animsStarted = 0
        /\ inputs = 0
        /\ moves = 0
        /\ staleWrite = FALSE
        /\ finished = 0
        /\ unmatchedDragStarts = 0
        /\ last = [ op        |-> "mount",
                    from      |-> p.defaultIndex,
                    args      |-> <<>>,
                    maxIndex  |-> Len(p.items) - InitialVisibleItems(c),
                    itemWidth |-> Zero ]

\* The main instances; the others are each explored on their own.
Init ==
  /\ \E i \in MainInstances : \E width \in Instances[i].mountWidths :
       FirstRender(i, width)
  /\ carousel = NoCarousel

InitExample ==
  /\ \E width \in Instances[<<"example">>].mountWidths :
       FirstRender(<<"example">>, width)
  /\ carousel = NoCarousel

InitTenItems ==
  /\ \E width \in Instances[<<"tenItems">>].mountWidths :
       FirstRender(<<"tenItems">>, width)
  /\ carousel = NoCarousel

InitBreakpoints ==
  /\ \E i \in BreakpointInstances : \E width \in Instances[i].mountWidths :
       FirstRender(i, width)
  /\ carousel = NoCarousel

InitPeek ==
  /\ \E i \in PeekInstances : \E width \in Instances[i].mountWidths :
       FirstRender(i, width)
  /\ carousel = NoCarousel

(***************************************************************************)
(* requestAnimationFrame / cancelAnimationFrame                            *)
(*                                                                         *)
(* A pending request is a record: its handle, the animation it belongs to, *)
(* whether that animation's start cancelled a pending frame, and its       *)
(* target (history fields), the values the animate closure captured        *)
(* (startOffset, distance), and the time from startTime to the timestamp   *)
(* of the animation's previous frame.  A handle is any number no live      *)
(* request and no holder of a handle currently uses.                       *)
(***************************************************************************)
FreshHandle(queue, held) ==
  CHOOSE h \in 1..(Cardinality(queue) + 2) :
    /\ h # held
    /\ \A r \in queue : r.handle # h
    /\ \A g \in 1..(h - 1) : g = held \/ \E r \in queue : r.handle = g

CancelAnimationFrame(queue, handle) == {r \in queue : r.handle # handle}

(***************************************************************************)
(* animateToOffset: startOffset is the sliderOffset of the render the      *)
(* calling handler belongs to.                                             *)
(***************************************************************************)
\* A mutant: the new animation is started without cancelling the previous.
AnimateToOffsetNoCancel(targetOffset, immediate) ==
  LET handle == FreshHandle(raf, animationRef)
  IN  /\ raf' = raf \cup
                  {[ handle      |-> handle,
                     anim        |-> animsStarted + 1,
                     preempts    |-> raf # {},
                     target      |-> targetOffset,
                     startOffset |-> rendered.sliderOffset,
                     distance    |-> QSub(targetOffset, rendered.sliderOffset),
                     elapsed     |-> 0 ]}
      /\ animationRef' = handle
      /\ animsStarted' = animsStarted + 1
      /\ UNCHANGED sliderOffset

AnimateToOffset(targetOffset, immediate) ==
  IF immediate
  THEN /\ sliderOffset' = targetOffset
       /\ UNCHANGED <<raf, animationRef, animsStarted>>
  ELSE LET cancelled == CancelAnimationFrame(raf, animationRef)
           handle    == FreshHandle(cancelled, animationRef)
       IN  /\ raf' = cancelled \cup
                       {[ handle      |-> handle,
                          anim        |-> animsStarted + 1,
                          preempts    |-> cancelled # raf,
                          target      |-> targetOffset,
                          startOffset |-> rendered.sliderOffset,
                          distance    |-> QSub(targetOffset,
                                               rendered.sliderOffset),
                          elapsed     |-> 0 ]}
           /\ animationRef' = handle
           /\ animsStarted' = animsStarted + 1
           /\ UNCHANGED sliderOffset

\* The springs of the instances, and the elapsed times their frames take
Springs == {SliderConfigs[i].springConfig : i \in DOMAIN Instances}

ElapsedTimes ==
  FrameDelays \cup {a + b : a \in {d \in FrameDelays : d < 300}, b \in FrameDelays}

\* dampedProgress at the springs and the elapsed times of the instances,
\* computed once
EasingTable ==
  {[spring |-> spring, elapsed |-> elapsed,
    dampedProgress |-> DampedProgress(spring, Progress(elapsed))] :
     spring \in Springs, elapsed \in ElapsedTimes}

\* dampedProgress of the animate callback
Eased(spring, elapsed) ==
  IF spring \in Springs /\ elapsed \in ElapsedTimes
  THEN (CHOOSE r \in EasingTable :
          r.spring = spring /\ r.elapsed = elapsed).dampedProgress
  ELSE DampedProgress(spring, Progress(elapsed))

\* The value the animate callback passes to setSliderOffset
FrameOffset(f, elapsed) ==
  QAdd(f.startOffset, QMul(f.distance, Eased(cfg.springConfig, elapsed)))

\* The animate callback of a pending request, called by the browser with a
\* timestamp delay ms after the previous frame of the animation.  Its
\* setSliderOffset is queued.
Animate(f, delay) ==
  LET elapsed  == f.elapsed + delay
      progress == Progress(elapsed)
      rest     == raf \ {f}
      handle   == FreshHandle(rest, animationRef)
  IN  /\ sliderOffset' = FrameOffset(f, elapsed)
      /\ IF QLt(progress, One)
         THEN /\ raf' = rest \cup {[f EXCEPT !.handle = handle,
                                             !.elapsed = elapsed]}
              /\ animationRef' = handle
         ELSE /\ raf' = rest
              /\ UNCHANGED animationRef
      /\ staleWrite' = (staleWrite \/ f.anim # animsStarted)
      /\ finished' = IF QLt(progress, One) THEN finished ELSE f.anim
      /\ UNCHANGED <<instance, offsetWidth, dimensions, currentIndex,
                     isDragging, visibleRange, rendered, sync, effectDeps,
                     throttlePending, dragStartRef, dragCurrentRef,
                     lastSlideChange, slideChangeCalls, animsStarted, inputs,
                     unmatchedDragStarts, last, moves, carousel>>

Frame ==
  /\ sync = {}
  /\ \E f \in raf : \E delay \in FrameDelays : Animate(f, delay)

(***************************************************************************)
(* Renders.  Updates made outside a discrete event (in a call of the       *)
(* handle, a frame callback, the observer's callback, a timer, an effect,  *)
(* a mouse move or a mouse leave) are rendered together in a later task,   *)
(* before which React runs the effects of the last commit.  The updates a  *)
(* discrete event's handler makes (click, mouse down and up, touch start   *)
(* and end) are rendered when the handler returns: the effects of the last *)
(* commit run first if they have not, and the render commits the cells the *)
(* handler set and leaves the other queued updates queued.                 *)
(***************************************************************************)
\* The render of the queued updates
Render ==
  /\ sync = {}
  /\ EffectsDone
  /\ ~Committed
  /\ rendered' = Cells
  /\ UNCHANGED <<instance, offsetWidth, containerWidth, currentIndex,
                 isDragging, visibleItems, sliderOffset, peekWidth,
                 visibleRange, sync, effectDeps, throttlePending,
                 dragStartRef, dragCurrentRef, animationRef, raf,
                 lastSlideChange, slideChangeCalls, animsStarted, inputs,
                 staleWrite, finished, unmatchedDragStarts, last, moves, carousel>>

\* The last committed render with the named cells at their new values
SyncCommitted(cells, index, dragging) ==
  [rendered EXCEPT
     !.currentIndex = IF "currentIndex" \in cells THEN index ELSE @,
     !.isDragging   = IF "isDragging" \in cells THEN dragging ELSE @]

\* The handler ran in a discrete event and set the cells.
Discrete(cells) ==
  IF EffectsDone
  THEN /\ rendered' = SyncCommitted(cells, currentIndex', isDragging')
       /\ UNCHANGED sync
  ELSE /\ sync' = cells
       /\ UNCHANGED rendered

\* The handler ran outside a discrete event.
Batched == UNCHANGED <<rendered, sync>>

\* The synchronous render of a discrete event whose handler ran before the
\* effects of the last commit
SyncRender ==
  /\ sync # {}
  /\ EffectsDone
  /\ rendered' = SyncCommitted(sync, currentIndex, isDragging)
  /\ sync' = {}
  /\ UNCHANGED <<instance, offsetWidth, containerWidth, currentIndex,
                 isDragging, visibleItems, sliderOffset, peekWidth,
                 visibleRange, effectDeps, throttlePending, dragStartRef,
                 dragCurrentRef, animationRef, raf, lastSlideChange,
                 slideChangeCalls, animsStarted, inputs, staleWrite, finished,
                 unmatchedDragStarts, last, moves, carousel>>

(***************************************************************************)
(* Navigation: handleNext, handlePrevious, and the imperative handle       *)
(***************************************************************************)
\* getItemWidth() of the last committed render
ItemWidth ==
  GetItemWidth(cfg, rendered.containerWidth, rendered.peekWidth,
               rendered.visibleItems)

\* items.length - visibleItems
MaxIndex == Len(items) - rendered.visibleItems

\* -(index * (itemWidth + gap)) + (peek ? peekWidth : 0)
TargetOffset(index) == OffsetOfIndex(cfg, index, ItemWidth, rendered.peekWidth)

\* A mutant: next() without the clamp to maxIndex.
NextIndexUnclamped(length, visible, index) == index + 1

\* Math.min(maxIndex, currentIndex + 1)
NextIndex(length, visible, index) == IMin(length - visible, index + 1)

\* A mutant: previous() without the clamp to 0.
PreviousIndexUnclamped(index) == index - 1

\* Math.max(0, currentIndex - 1)
PreviousIndex(index) == IMax(0, index - 1)

\* items.findIndex((item) => item.id === itemId)
FindIndex(its, itemId) ==
  LET found == {k \in 1..Len(its) : its[k] = itemId}
  IN  IF found = {} THEN -1
      ELSE (CHOOSE k \in found : \A j \in found : k <= j) - 1

\* setCurrentIndex(index); animateToOffset(targetOffset), without the call
\* of onSlideChange
SlideToNoCallback(index) ==
  /\ currentIndex' = index
  /\ AnimateToOffset(TargetOffset(index), FALSE)
  /\ UNCHANGED <<lastSlideChange, slideChangeCalls>>

\* setCurrentIndex(index); animateToOffset(targetOffset); onSlideChange?.(index)
SlideTo(index) ==
  /\ currentIndex' = index
  /\ AnimateToOffset(TargetOffset(index), FALSE)
  /\ lastSlideChange' = <<index>>
  /\ slideChangeCalls' = slideChangeCalls + 1

HandleNext ==
  SlideTo(NextIndex(Len(items), rendered.visibleItems, rendered.currentIndex))

HandlePrevious == SlideTo(PreviousIndex(rendered.currentIndex))

\* The history of the inputs: their count, which handler ran last, with
\* which arguments, and the index, the maxIndex and the item width of the
\* render it ran in.
Recorded(op, args) ==
  /\ inputs' = inputs + 1
  /\ last' = [op |-> op, from |-> rendered.currentIndex, args |-> args,
              maxIndex |-> MaxIndex, itemWidth |-> ItemWidth]

\* An input other than a pointer move
InputWith(op, args) ==
  /\ inputs - moves < Instances[instance].maxInputs
  /\ Recorded(op, args)

Input(op) == InputWith(op, <<>>)

\* The methods of the imperative handle
Next_ == Input("next") /\ HandleNext

Previous_ == Input("previous") /\ HandlePrevious

ScrollToIndex(index) ==
  /\ InputWith("scrollToIndex", <<index>>)
  /\ SlideTo(index)

\* scrollToItem without the test itemIndex !== -1
ScrollToItemUnguarded(itemId) ==
  /\ InputWith("scrollToItem", <<itemId>>)
  /\ SlideTo(FindIndex(items, itemId))

ScrollToItem(itemId) ==
  LET itemIndex == FindIndex(items, itemId)
  IN  IF itemIndex # -1
      THEN /\ InputWith("scrollToItem", <<itemId>>)
           /\ SlideTo(itemIndex)
      ELSE /\ InputWith("scrollToItem", <<itemId>>)
           /\ UNCHANGED <<currentIndex, sliderOffset, animationRef, raf,
                          lastSlideChange, slideChangeCalls, animsStarted>>

\* What a call of the handle leaves alone
settled == <<offsetWidth, dimensions, visibleRange, effectDeps, untouched>>

\* A call of the handle outside a discrete event, on the handle of the last
\* committed render.  The handle is attached when the first render commits,
\* before the mount effects run: a parent's layout effect can call it then.
CallNext == sync = {} /\ Next_ /\ Batched /\ UNCHANGED settled

CallPrevious ==
  sync = {} /\ Previous_ /\ Batched /\ UNCHANGED settled

CallScrollToIndex(index) ==
  sync = {} /\ ScrollToIndex(index) /\ Batched /\ UNCHANGED settled

CallScrollToItem(itemId) ==
  sync = {} /\ ScrollToItem(itemId) /\ Batched /\ UNCHANGED settled

\* The buttons of ExampleUsage (l.593-608): a click calls previous() or
\* next() of the handle.
ButtonPrevious ==
  /\ Mounted
  /\ sync = {}
  /\ Previous_
  /\ UNCHANGED settled
  /\ Discrete({"currentIndex"})

ButtonNext ==
  /\ Mounted
  /\ sync = {}
  /\ Next_
  /\ UNCHANGED settled
  /\ Discrete({"currentIndex"})

(***************************************************************************)
(* Mount: the effects of the first render.  The dimension effect calls the *)
(* throttled updateDimensions, which runs at once; it has no cleanup to    *)
(* run, so a frame requested before it stays requested.                    *)
(***************************************************************************)
Mount ==
  /\ ~Mounted
  /\ UpdateDimensions(offsetWidth, rendered.visibleItems)
  /\ RangeUpdated
  /\ effectDeps' = RenderDeps
  /\ UNCHANGED <<offsetWidth, currentIndex, sliderOffset, rendered, sync,
                 animationRef, raf, lastSlideChange, slideChangeCalls,
                 animsStarted, inputs, last, untouched>>

\* The effects of a render after the first: those whose dependencies the
\* render changed.  The cleanup of the dimension effect drops the trailing
\* call of the throttled updateDimensions and cancels the frame animationRef
\* holds.
RunEffects ==
  /\ Mounted
  /\ ~EffectsDone
  /\ IF rendered.visibleItems # effectDeps.visibleItems
     THEN /\ raf' = CancelAnimationFrame(raf, animationRef)
          /\ throttlePending' = FALSE
          /\ UpdateDimensions(offsetWidth, rendered.visibleItems)
     ELSE UNCHANGED <<raf, throttlePending, dimensions>>
  /\ RangeUpdated
  /\ effectDeps' = RenderDeps
  /\ UNCHANGED <<instance, offsetWidth, currentIndex, isDragging,
                 sliderOffset, rendered, sync, dragStartRef, dragCurrentRef,
                 animationRef, lastSlideChange, slideChangeCalls,
                 animsStarted, inputs, staleWrite, finished,
                 unmatchedDragStarts, last, moves, carousel>>

(***************************************************************************)
(* Resize (the ResizeObserver's callback), the throttle's timer, refresh() *)
(*                                                                         *)
(* The observer's callback is throttle(updateDimensions, 16) of the render *)
(* the dimension effect last ran in (effectDeps.visibleItems is the        *)
(* visibleItems of its calculatePeekWidth).  The throttle runs a call at   *)
(* once when 16 ms have passed since the last call of the throttled        *)
(* function or since updateDimensions last ran; otherwise it holds the     *)
(* call back until its timer expires, and updateDimensions then runs with  *)
(* the width the container has at that time.                               *)
(***************************************************************************)
\* The container takes the width and the observer calls the throttled
\* updateDimensions, sinceCall ms after the throttled function was last
\* called and sinceInvoke ms after updateDimensions last ran.
Resize(width, sinceCall, sinceInvoke) ==
  /\ Mounted
  /\ sync = {}
  /\ width # offsetWidth
  /\ Input("resize")
  /\ offsetWidth' = width
  /\ IF sinceCall >= ThrottleWait \/ sinceInvoke >= ThrottleWait
     THEN /\ UpdateDimensions(width, effectDeps.visibleItems)
          /\ throttlePending' = FALSE
     ELSE /\ throttlePending' = TRUE
          /\ UNCHANGED dimensions
  /\ UNCHANGED <<instance, currentIndex, isDragging, sliderOffset,
                 visibleRange, rendered, sync, effectDeps, dragStartRef,
                 dragCurrentRef, animationRef, raf, lastSlideChange,
                 slideChangeCalls, animsStarted, staleWrite, finished,
                 unmatchedDragStarts, moves, carousel>>

\* The throttle's timer expires: the call held back runs.
TimerExpired ==
  /\ throttlePending
  /\ sync = {}
  /\ UpdateDimensions(offsetWidth, effectDeps.visibleItems)
  /\ throttlePending' = FALSE
  /\ UNCHANGED <<instance, offsetWidth, currentIndex, isDragging,
                 sliderOffset, visibleRange, rendered, sync, effectDeps,
                 dragStartRef, dragCurrentRef, animationRef, raf,
                 lastSlideChange, slideChangeCalls, animsStarted, inputs,
                 staleWrite, finished, unmatchedDragStarts, last, moves, carousel>>

\* refresh(), called when the container has the width: it is not throttled,
\* and its calculatePeekWidth is the one of the last committed render.
Refresh(width) ==
  /\ sync = {}
  /\ Input("refresh")
  /\ offsetWidth' = width
  /\ UpdateDimensions(width, rendered.visibleItems)
  /\ UNCHANGED <<currentIndex, sliderOffset, visibleRange, rendered, sync,
                 effectDeps, animationRef, raf, lastSlideChange,
                 slideChangeCalls, animsStarted, untouched>>

(***************************************************************************)
(* The arrow buttons (l.539-544)                                           *)
(***************************************************************************)
\* The slider's track, which carries the pointer handlers, is rendered only
\* if (items?.length && containerWidth).
Rendered == Len(items) > 0 /\ rendered.containerWidth # 0

\* showArrows && items.length > visibleItems
ArrowsShown == Rendered /\ cfg.showArrows /\ Len(items) > rendered.visibleItems

\* A click on the left arrow, which is disabled at index 0
ClickPrevious ==
  /\ sync = {}
  /\ ArrowsShown
  /\ rendered.currentIndex # 0
  /\ Previous_
  /\ UNCHANGED settled
  /\ Discrete({"currentIndex"})

\* A click on the right arrow, disabled at items.length - visibleItems
ClickNext ==
  /\ sync = {}
  /\ ArrowsShown
  /\ rendered.currentIndex # MaxIndex
  /\ Next_
  /\ UNCHANGED settled
  /\ Discrete({"currentIndex"})

(***************************************************************************)
(* Drag: handleDragStart, handleDragMove, handleDragEnd                    *)
(***************************************************************************)
HandleDragStart(clientX) ==
  IF ~cfg.enableDrag THEN UNCHANGED vars
  ELSE /\ Input("dragStart")
       /\ isDragging' = TRUE
       /\ dragStartRef' = clientX
       /\ dragCurrentRef' = clientX
       /\ raf' = CancelAnimationFrame(raf, animationRef)
       /\ unmatchedDragStarts' = unmatchedDragStarts + 1
       /\ UNCHANGED <<instance, offsetWidth, dimensions, currentIndex,
                      sliderOffset, visibleRange, effectDeps, throttlePending,
                      animationRef, lastSlideChange, slideChangeCalls,
                      animsStarted, staleWrite, finished, moves, carousel>>
       /\ Discrete({"isDragging"})

\* const maxOffset = peek ? peekWidth : 0
MaxOffset == IF cfg.peek THEN rendered.peekWidth ELSE Zero

\* const minOffset = -((items.length - visibleItems) * (itemWidth + gap))
\*                   + (peek ? peekWidth : 0)
MinOffset ==
  QAdd(QNeg(QMul(ZQ(Len(items) - rendered.visibleItems),
                 QAdd(ItemWidth, ZQ(cfg.gap)))),
       IF cfg.peek THEN rendered.peekWidth ELSE Zero)

\* Math.max(minOffset, Math.min(maxOffset, prev + deltaX))
DragOffset(prev, deltaX) ==
  QMax(MinOffset, QMin(MaxOffset, QAdd(prev, ZQ(deltaX))))

\* setSliderOffset((prev) => ...): prev is the offset with every update
\* queued before applied.
HandleDragMove(clientX) ==
  IF ~rendered.isDragging \/ ~cfg.enableDrag THEN UNCHANGED vars
  ELSE LET deltaX == clientX - dragCurrentRef
       IN  /\ moves < MaxMoves
           /\ moves' = moves + 1
           /\ Recorded("dragMove", <<>>)
           /\ dragCurrentRef' = clientX
           /\ sliderOffset' = DragOffset(sliderOffset, deltaX)
           /\ UNCHANGED <<instance, offsetWidth, dimensions, currentIndex,
                          isDragging, visibleRange, effectDeps,
                          throttlePending, dragStartRef, animationRef, raf,
                          lastSlideChange, slideChangeCalls, animsStarted,
                          staleWrite, finished, unmatchedDragStarts, carousel>>
           /\ Batched

\* Math.abs(totalDrag) > itemWidth * dragThreshold
ExceedsThreshold(totalDrag) ==
  QLt(QMul(ItemWidth, cfg.dragThreshold), ZQ(IAbs(totalDrag)))

\* totalDrag > 0 ? handlePrevious() : handleNext()
CommitsPrevious(totalDrag) == totalDrag > 0

\* discrete: the event is a mouse up or a touch end, not a mouse leave (which
\* is counted with the pointer moves).
HandleDragEnd(discrete) ==
  IF ~rendered.isDragging \/ ~cfg.enableDrag THEN UNCHANGED vars
  ELSE LET totalDrag == dragCurrentRef - dragStartRef
       IN  /\ IF discrete
              THEN Input("dragEnd") /\ UNCHANGED moves
              ELSE /\ moves < MaxMoves
                   /\ moves' = moves + 1
                   /\ Recorded("dragEnd", <<>>)
           /\ isDragging' = FALSE
           /\ IF ExceedsThreshold(totalDrag)
              THEN IF CommitsPrevious(totalDrag)
                   THEN HandlePrevious
                   ELSE HandleNext
              ELSE /\ AnimateToOffset(TargetOffset(rendered.currentIndex), FALSE)
                   /\ UNCHANGED <<currentIndex, lastSlideChange, slideChangeCalls>>
           /\ unmatchedDragStarts' = unmatchedDragStarts - 1
           /\ UNCHANGED <<instance, offsetWidth, dimensions, visibleRange,
                          effectDeps, throttlePending, dragStartRef,
                          dragCurrentRef, staleWrite, finished, carousel>>
           /\ IF discrete
              THEN Discrete(IF ExceedsThreshold(totalDrag)
                            THEN {"isDragging", "currentIndex"}
                            ELSE {"isDragging"})
              ELSE Batched

\* onMouseDown / onTouchStart
PointerDown(clientX) == sync = {} /\ Rendered /\ HandleDragStart(clientX)

\* onMouseMove / onTouchMove
PointerMove(clientX) == sync = {} /\ Rendered /\ HandleDragMove(clientX)

\* onMouseUp / onTouchEnd
PointerUp == sync = {} /\ Rendered /\ HandleDragEnd(TRUE)

\* onMouseLeave
MouseLeave == sync = {} /\ Rendered /\ HandleDragEnd(FALSE)

(***************************************************************************)
(* The specification                                                       *)
(***************************************************************************)
Next ==
  \/ Mount
  \/ RunEffects
  \/ Render
  \/ SyncRender
  \/ CallNext
  \/ CallPrevious
  \/ \E index \in ScrollIndices(items) : CallScrollToIndex(index)
  \/ \E itemId \in ScrollIds(items) : CallScrollToItem(itemId)
  \/ ClickNext
  \/ ClickPrevious
  \/ \E width \in widths :
       \E sinceCall, sinceInvoke \in ResizeDelays :
         Resize(width, sinceCall, sinceInvoke)
  \/ TimerExpired
  \/ \E width \in widths : Refresh(width)
  \/ \E clientX \in DragXs : PointerDown(clientX)
  \/ \E clientX \in DragXs : PointerMove(clientX)
  \/ PointerUp
  \/ MouseLeave
  \/ Frame

Spec == Init /\ [][Next]_vars

\* ExampleUsage under its two buttons (previous() and next() of the
\* handle), its arrows, the pointer and the frame callbacks
NextExample ==
  \/ Mount
  \/ RunEffects
  \/ Render
  \/ SyncRender
  \/ ButtonNext
  \/ ButtonPrevious
  \/ ClickNext
  \/ ClickPrevious
  \/ \E clientX \in DragXs : PointerDown(clientX)
  \/ \E clientX \in DragXs : PointerMove(clientX)
  \/ PointerUp
  \/ MouseLeave
  \/ Frame

SpecExample == InitExample /\ [][NextExample]_vars

\* The ten-item instance under next(), previous() and the frame callbacks
NextTenItems ==
  \/ Mount
  \/ RunEffects
  \/ Render
  \/ CallNext
  \/ CallPrevious
  \/ Frame

SpecTenItems == InitTenItems /\ [][NextTenItems]_vars

\* The ten-item instance under scrollToIndex as well: the offsets and the
\* visible ranges of indices outside [0, items.length - visibleItems]
NextWindow ==
  \/ Mount
  \/ RunEffects
  \/ Render
  \/ \E index \in ScrollIndices(items) : CallScrollToIndex(index)
  \/ Frame

SpecWindow == InitTenItems /\ [][NextWindow]_vars

\* An instance under the changes of its container's width
NextDimensions ==
  \/ Mount
  \/ RunEffects
  \/ Render
  \/ \E width \in widths :
       \E sinceCall, sinceInvoke \in ResizeDelays :
         Resize(width, sinceCall, sinceInvoke)
  \/ TimerExpired
  \/ \E width \in widths : Refresh(width)

SpecBreakpoints == InitBreakpoints /\ [][NextDimensions]_vars

SpecPeek == InitPeek /\ [][NextDimensions]_vars

\* A carousel of 1 to MaxProducts products before emblaApi's "init", beside
\* a slider that is left alone
InitCarousel ==
  /\ FirstRender(<<"defaults">>, 768)
  /\ \E count \in 1..MaxProducts :
       carousel = [products           |-> GenerateData(count),
                   isInitialized      |-> FALSE,
                   selected           |-> 0,
                   visibleSlides      |-> <<>>,
                   closureInitialized |-> FALSE]

NextCarousel ==
  \/ EmblaInit
  \/ EmblaEffect
  \/ \E snap \in 0..(Len(carousel.products) - 1) : EmblaSelect(snap)

SpecCarousel == InitCarousel /\ [][NextCarousel]_vars

(***************************************************************************)
(* Properties                                                              *)
(***************************************************************************)
\* dragCurrentRef.current - dragStartRef.current of the last gesture
TotalDrag == dragCurrentRef - dragStartRef

\* No frame is pending: every animation started so far has run to its last
\* frame or was cancelled.
NoAnimationInFlight == raf = {}

\* The animation started last has run to its frame of progress 1.
AnimationCompleted == raf = {} /\ animsStarted > 0 /\ finished = animsStarted

\* The step is the handling of one input by the named handler.
Handled(op) == inputs' = inputs + 1 /\ last'.op = op

\* C1: in every committed render 0 <= currentIndex <= items.length -
\* visibleItems.
C1_IndexInRange ==
  0 <= rendered.currentIndex /\ rendered.currentIndex <= MaxIndex

\* C2: with virtualization enabled the range calculateVisibleRange computes
\* for the offset and the dimensions of a committed render satisfies
\* 0 <= start <= end <= items.length.
C2_RangeValid ==
  (cfg.virtualization.enabled /\ Mounted) =>
    LET range == CalculateVisibleRange(cfg, Len(items), rendered.sliderOffset,
                                       rendered.containerWidth,
                                       rendered.peekWidth,
                                       rendered.visibleItems)
    IN  /\ QLe(Zero, range.start)
        /\ QLe(range.start, range.end)
        /\ QLe(range.end, ZQ(Len(items)))

\* C3: after scrollToIndex(i) with a valid i, when the animation has run to
\* completion, every update is rendered and nothing else happened (the
\* dimensions are those of the call), the index is i and the offset is
\* -(i * (itemWidth + gap)) + peekAdjustment.
C3_ScrollToIndexSettles ==
  ( /\ last.op = "scrollToIndex"
    /\ last.args[1] \in 0..MaxIndex
    /\ last.itemWidth = ItemWidth
    /\ EffectsDone
    /\ Committed
    /\ AnimationCompleted )
  => /\ rendered.currentIndex = last.args[1]
     /\ rendered.sliderOffset = TargetOffset(last.args[1])

\* C3, the part about the index alone, which the code does satisfy: the
\* index scrollToIndex(i) sets is i, and it is the index of the render of
\* that update.
C3_IndexSet ==
  last.op = "scrollToIndex" =>
    /\ currentIndex = last.args[1]
    /\ Committed => rendered.currentIndex = last.args[1]

\* C4: at most one animation frame is scheduled at any moment, and no frame
\* of an animation writes the offset once a later animation was started.
C4_OneAnimation == Cardinality(raf) <= 1 /\ ~staleWrite

\* A frame has run of an animation whose start cancelled the pending frame
\* of the animation before it.
C4_Witness == \E f \in raf : f.preempts /\ f.elapsed > 0

\* C5: whenever no drag is in progress, no animation is in flight and no
\* update or effect is outstanding, the offset is
\* -(currentIndex * (itemWidth + gap)) + peekAdjustment.
C5_OffsetOfIndexAtRest ==
  ( /\ Mounted
    /\ EffectsDone
    /\ Committed
    /\ ~rendered.isDragging
    /\ NoAnimationInFlight )
  => rendered.sliderOffset = TargetOffset(rendered.currentIndex)

\* The target of the animation a pending frame belongs to
TargetOf(f) == f.target

\* itemWidth * dragThreshold in the render the last input ran in
DragThresholdWidth == QMul(last.itemWidth, cfg.dragThreshold)

\* The animation the step started aims at the offset
StartedTowards(offset) ==
  /\ animsStarted' = animsStarted + 1
  /\ \E f \in raf' : f.anim = animsStarted' /\ TargetOf(f) = offset

\* C6: next() called at the last reachable index (of the render the call is
\* made in) leaves the index unchanged and animates to the offset of that
\* index.
C6_NextAtLastIndex ==
  [][(Handled("next") /\ rendered.currentIndex = MaxIndex) =>
       /\ currentIndex' = rendered.currentIndex
       /\ StartedTowards(TargetOffset(rendered.currentIndex))]_vars

\* next() was called at the last reachable index and its animation is pending.
C6_Witness ==
  /\ last.op = "next"
  /\ rendered.containerWidth # 0
  /\ last.itemWidth = ItemWidth
  /\ last.from = last.maxIndex
  /\ last.maxIndex > 0
  /\ currentIndex = last.from
  /\ Committed
  /\ raf # {}

\* C7: previous() called at index 0 leaves the index 0 and animates to the
\* offset of index 0, also when the call is repeated.
C7_PreviousAtZero ==
  [][(Handled("previous") /\ rendered.currentIndex = 0) =>
       /\ currentIndex' = 0
       /\ StartedTowards(TargetOffset(0))]_vars

\* previous() was called at index 0 while the animation of an earlier call
\* was pending, and its own animation is pending.
C7_Witness ==
  /\ last.op = "previous"
  /\ rendered.containerWidth # 0
  /\ last.itemWidth = ItemWidth
  /\ last.from = 0
  /\ currentIndex = 0
  /\ \E f \in raf : f.preempts

\* C8: the index next() sets lies in [0, items.length - visibleItems], the
\* index previous() sets is at least 0.
C8_NextPreviousClamped ==
  /\ last.op = "next" => (0 <= currentIndex /\ currentIndex <= last.maxIndex)
  /\ last.op = "previous" => 0 <= currentIndex

\* C8, the part about previous() alone, which the code does satisfy.
C8_PreviousClamped == last.op = "previous" => 0 <= currentIndex

\* C9: after a gesture whose magnitude is below itemWidth * dragThreshold,
\* made at the index the render shows, once its animation has settled and
\* every update is rendered, the index is the one before the gesture and the
\* offset is that of the index.
C9_DragBelowThresholdReturns ==
  ( /\ last.op = "dragEnd"
    /\ QLt(ZQ(IAbs(TotalDrag)), DragThresholdWidth)
    /\ last.itemWidth = ItemWidth
    /\ AnimationCompleted
    /\ EffectsDone
    /\ Committed
    /\ rendered.currentIndex = last.from )
  => rendered.sliderOffset = TargetOffset(last.from)

\* C9, the part about the index and the animation's target, which the code
\* does satisfy: the end of such a gesture leaves the index alone and
\* starts an animation towards the offset of the index of its render.
C9_IndexKept ==
  [][( /\ Handled("dragEnd")
       /\ QLt(ZQ(IAbs(TotalDrag)), QMul(ItemWidth, cfg.dragThreshold)) )
     => /\ currentIndex' = currentIndex
        /\ StartedTowards(TargetOffset(rendered.currentIndex))]_vars

\* The magnitude of the gesture is strictly greater than
\* itemWidth * dragThreshold, with the item width of the handler's render.
BeyondThreshold == QLt(DragThresholdWidth, ZQ(IAbs(TotalDrag)))

\* The index bounds applied to index: next() clamps to
\* [0, items.length - visibleItems].
ClampedToBounds(index) == IMax(0, IMin(last.maxIndex, index))

\* C10: a gesture whose magnitude is greater than or equal to
\* itemWidth * dragThreshold changes the index by one in the drag direction,
\* clamped to the index bounds: rightward to the index previous() clamps to,
\* max(0, index - 1), leftward to the index next() clamps to, index + 1 in
\* [0, items.length - visibleItems].
C10_DragAtOrBeyondThreshold ==
  ( /\ last.op = "dragEnd"
    /\ QLe(DragThresholdWidth, ZQ(IAbs(TotalDrag))) )
  => currentIndex = IF TotalDrag > 0
                    THEN IMax(0, last.from - 1)
                    ELSE ClampedToBounds(last.from + 1)

\* C10 for magnitudes strictly greater than the threshold only, the
\* comparison handleDragEnd makes: the leftward clamp to the index bounds
\* still fails where items.length - visibleItems is negative.
C10_DragBeyondThresholdInBounds ==
  (last.op = "dragEnd" /\ BeyondThreshold)
  => currentIndex = IF TotalDrag > 0
                    THEN IMax(0, last.from - 1)
                    ELSE ClampedToBounds(last.from + 1)

\* C10, the part the code does satisfy, from every index, in or out of
\* range: a gesture strictly beyond the threshold sets the index to
\* max(0, index - 1) when rightward and to
\* min(items.length - visibleItems, index + 1) when leftward, wherever the
\* pointer went beyond the threshold.
C10_DragBeyondThreshold ==
  (last.op = "dragEnd" /\ BeyondThreshold)
  => currentIndex = IF TotalDrag > 0
                    THEN IMax(0, last.from - 1)
                    ELSE IMin(last.maxIndex, last.from + 1)

\* C10 at equality, which the code treats as below the threshold: the end
\* of a gesture whose magnitude equals itemWidth * dragThreshold leaves the
\* index alone and starts an animation back to the offset of the index.
C10_AtThresholdSnapsBack ==
  [][( /\ Handled("dragEnd")
       /\ ZQ(IAbs(TotalDrag)) = QMul(ItemWidth, cfg.dragThreshold) )
     => /\ currentIndex' = currentIndex
        /\ StartedTowards(TargetOffset(rendered.currentIndex))]_vars

\* A leftward gesture beyond the threshold has advanced the index by one.
C10_Advanced ==
  /\ last.op = "dragEnd"
  /\ BeyondThreshold
  /\ TotalDrag < 0
  /\ currentIndex = last.from + 1
  /\ Committed

\* A gesture of exactly the threshold has ended.
C10_AtThreshold ==
  /\ last.op = "dragEnd"
  /\ ZQ(IAbs(TotalDrag)) = DragThresholdWidth
  /\ TotalDrag # 0

\* A leftward gesture beyond the threshold has ended where there are fewer
\* items than visible items: the index has gone below 0.
C10_BelowZero ==
  /\ last.op = "dragEnd"
  /\ BeyondThreshold
  /\ TotalDrag < 0
  /\ last.from = 0
  /\ currentIndex = -1

\* minOffset <= offset <= maxOffset, with the bounds of the last committed
\* render, which the handler computes
InDragRange(offset) == QLe(MinOffset, offset) /\ QLe(offset, MaxOffset)

\* C11: after every dragMove the offset lies in [minOffset, maxOffset] (the
\* step changes neither the dimensions nor the items, so the bounds are the
\* same before and after it).
C11_DragOffsetClamped ==
  [][Handled("dragMove") => InDragRange(sliderOffset')]_vars

\* C11 where the interval is not empty (items.length >= visibleItems), which
\* the code does satisfy.
C11_ClampedWhenItemsFit ==
  [][(Handled("dragMove") /\ MaxIndex >= 0) => InDragRange(sliderOffset')]_vars

\* The item at position index (from 0) is the first one whose id is itemId.
IsFirstMatch(index, itemId) ==
  /\ index \in 0..(Len(items) - 1)
  /\ items[index + 1] = itemId
  /\ \A j \in 1..index : items[j] # itemId

\* C12: scrollToItem(id) with an id that matches no item changes neither the
\* index nor the offset, starts or cancels no animation and does not call
\* onSlideChange; with a matching id it sets currentIndex to the position of
\* the first matching item.
C12_ScrollToItem ==
  [][Handled("scrollToItem") =>
       LET itemId == last'.args[1]
       IN  IF \A k \in 1..Len(items) : items[k] # itemId
           THEN UNCHANGED <<currentIndex, sliderOffset, rendered, raf,
                            animationRef, animsStarted, lastSlideChange,
                            slideChangeCalls>>
           ELSE IsFirstMatch(currentIndex', itemId)]_vars

\* scrollToItem was called with an id that matches no item while an animation
\* was running and after onSlideChange had been called.
C12_Witness ==
  /\ last.op = "scrollToItem"
  /\ \A k \in 1..Len(items) : items[k] # last.args[1]
  /\ raf # {}
  /\ lastSlideChange # <<>>

\* scrollToItem was called with the id that two items share.
C12_FirstOfTwo ==
  /\ last.op = "scrollToItem"
  /\ Cardinality({k \in 1..Len(items) : items[k] = last.args[1]}) > 1

\* The step is a call of next(), previous() or scrollToIndex, or a call of
\* scrollToItem with the id of an item.
Navigated ==
  \/ Handled("next")
  \/ Handled("previous")
  \/ Handled("scrollToIndex")
  \/ Handled("scrollToItem") /\ \E k \in 1..Len(items) : items[k] = last'.args[1]

\* C13: every call of next(), previous(), scrollToIndex or a successful
\* scrollToItem starts one animation (a single frame request, no time
\* elapsed) and calls onSlideChange exactly once, with the new index; and
\* after every step the last value passed to the callback is the current
\* index.
C13_CallbackFollowsIndex ==
  [][ /\ Navigated =>
           /\ slideChangeCalls' = slideChangeCalls + 1
           /\ lastSlideChange' = <<currentIndex'>>
           /\ animsStarted' = animsStarted + 1
           /\ \E f \in raf' : raf' = {f} /\ f.anim = animsStarted' /\ f.elapsed = 0
      /\ lastSlideChange' # <<>> => lastSlideChange'[1] = currentIndex' ]_vars

\* A sequence of navigation calls, the last of which changed the index
C13_Witness ==
  /\ slideChangeCalls >= 2
  /\ last.op \in {"next", "previous", "scrollToIndex", "scrollToItem"}
  /\ currentIndex # last.from
  /\ lastSlideChange = <<currentIndex>>

\* C14: with ten items, four visible, gap 8, itemWidth 100 and no peek, the
\* k-th of three successive next() calls from index 0, each made in the
\* render of the update before it (the index of its render is k - 1), sets
\* the index to k and starts an animation whose target offset is -108 k:
\* indices 1, 2, 3 and targets -108, -216, -324.
C14_ThreeNexts ==
  ( /\ instance = <<"tenItems">>
    /\ last.op = "next"
    /\ inputs \in 1..3
    /\ slideChangeCalls = inputs
    /\ last.maxIndex = 10 - 4
    /\ last.itemWidth = ZQ(100)
    /\ last.from = inputs - 1 )
  => /\ Len(items) = 10 /\ cfg.gap = 8 /\ ~cfg.peek
     /\ currentIndex = inputs
     /\ lastSlideChange = <<inputs>>
     /\ \A f \in raf : f.anim = animsStarted => TargetOf(f) = ZQ(-108 * inputs)

\* The third of three successive next() calls from index 0, its animation
\* pending
C14_Witness ==
  /\ instance = <<"tenItems">>
  /\ last.op = "next"
  /\ inputs = 3
  /\ slideChangeCalls = 3
  /\ last.from = 2
  /\ last.itemWidth = ZQ(100)
  /\ currentIndex = 3
  /\ \E f \in raf : f.anim = animsStarted /\ TargetOf(f) = ZQ(-324)

\* C15: while a drag is in progress no animation frame is pending.
C15_NoFrameWhileDragging == rendered.isDragging => raf = {}

\* C15, the other half: during a drag only dragMove changes the offset.
C15_OnlyDragMoveWritesOffset ==
  [][(rendered.isDragging /\ rendered'.isDragging
         /\ sliderOffset' # sliderOffset)
       => Handled("dragMove")]_vars

\* C15, the part the code satisfies: dragStart leaves no frame pending.
C15_DragStartCancels == last.op = "dragStart" => raf = {}

\* The step ends animation f's requests: no request of it is pending after.
Ends(f) == \A g \in raf' : g.anim # f.anim

\* The step is the frame of f on which progress = 1 (elapsed >= 300).
FinalFrame(f) == finished' = f.anim

\* C16: an animation's requests end only with its frame of progress 1, or
\* because a new animation or a drag start cancelled them.
C16_RunsUnlessCancelled ==
  [][\A f \in raf :
       Ends(f) => \/ FinalFrame(f)
                  \/ animsStarted' # animsStarted
                  \/ Handled("dragStart")]_vars

\* C16: the frame that ends an animation leaves the offset at its target.
C16_LastWriteAtTarget ==
  [][\A f \in raf :
       (Ends(f) /\ FinalFrame(f)) => sliderOffset' = TargetOf(f)]_vars

\* C16, the part the code satisfies: no frame is requested once the elapsed
\* time has reached 300, and every frame adds to the elapsed time.
C16_NoRequestAfter300 == \A f \in raf : f.elapsed < 300

C16_FramesAdvance ==
  [][\A f \in raf : \A g \in raf' : g.anim = f.anim => g.elapsed >= f.elapsed]_vars

\* Math.ceil(containerWidth / (itemWidth + gap)) + 2 * overscan + 1
RenderedBound ==
  QAdd(QCeil(QDiv(ZQ(rendered.containerWidth), QAdd(ItemWidth, ZQ(cfg.gap)))),
       ZQ(2 * Overscan(cfg) + 1))

\* The relative index k of Array.prototype.slice on an array of the given
\* length: truncated to an integer (NaN is 0), counted from the end when
\* negative, and clamped to [0, length].
RelativeIndex(length, k) ==
  IF IsNaN(k) THEN 0
  ELSE IF IsInfinite(k) THEN (IF k.s < 0 THEN 0 ELSE length)
  ELSE IF QTrunc(k) < 0 THEN IMax(length + QTrunc(k), 0)
  ELSE IMin(QTrunc(k), length)

\* The number of items rendered: all of them without virtualization,
\* items.slice(visibleRange.start, visibleRange.end).length with it.
RenderedCount ==
  IF ~cfg.virtualization.enabled THEN Len(items)
  ELSE IMax(RelativeIndex(Len(items), rendered.visibleRange.end)
              - RelativeIndex(Len(items), rendered.visibleRange.start), 0)

\* C17: with virtualization enabled the number of rendered items is at most
\* ceil(containerWidth / (itemWidth + gap)) + 2 * overscan + 1, whatever the
\* number of items and the offset.
C17_RenderedBounded ==
  (cfg.virtualization.enabled /\ rendered.containerWidth # 0)
    => QLe(ZQ(RenderedCount), RenderedBound)

\* C17, the part the code does satisfy: the bound holds wherever the end of
\* the visible range is not negative.
C17_BoundedWhenEndNotNegative ==
  ( /\ cfg.virtualization.enabled
    /\ rendered.containerWidth # 0
    /\ QLe(Zero, rendered.visibleRange.end) )
    => QLe(ZQ(RenderedCount), RenderedBound)

\* The offset is positive after scrollToIndex with a negative index: the
\* range ends before 0 and the slice counts its end from the last item.
C17_NegativeEnd ==
  /\ cfg.virtualization.enabled
  /\ rendered.containerWidth # 0
  /\ last.op = "scrollToIndex"
  /\ QLt(rendered.visibleRange.end, Zero)
  /\ QLt(RenderedBound, ZQ(RenderedCount))

\* The list of responsive breakpoints as the caller supplied it
Supplied == ResponsiveBreakpoints(cfg)

\* The positions of the supplied entries whose width is <= the container's
Qualifying == {k \in 1..Len(Supplied) : Supplied[k].width <= containerWidth}

\* The positions of the qualifying entries of the largest width, and of the
\* entries of the smallest width
WidestQualifying ==
  {k \in Qualifying : \A j \in Qualifying : Supplied[j].width <= Supplied[k].width}

Narrowest ==
  {k \in 1..Len(Supplied) :
     \A j \in 1..Len(Supplied) : Supplied[k].width <= Supplied[j].width}

\* The entry the resolution names: a qualifying one of the largest width, or
\* a narrowest one if none qualifies
Named == IF Qualifying # {} THEN WidestQualifying ELSE Narrowest

DistinctWidths ==
  \A j, k \in 1..Len(Supplied) : Supplied[j].width = Supplied[k].width => j = k

IsPermutation(a, b) ==
  /\ Len(a) = Len(b)
  /\ \E f \in [1..Len(a) -> 1..Len(a)] :
       /\ \A j, k \in 1..Len(a) : f[j] = f[k] => j = k
       /\ \A k \in 1..Len(a) : a[k] = b[f[k]]

\* The result does not depend on the order of the list.
AnyOrder ==
  \A other \in BreakpointLists :
    IsPermutation(other, Supplied) =>
      GetVisibleItemsEnhanced(containerWidth, cfg.breakpoints, other) = visibleItems

\* C18: in the state the dimension update stores, a non-empty list of
\* responsive breakpoints takes precedence over the width-tier table, and
\* the number of visible items is that of the entry with the largest width
\* <= the container width, or of the narrowest entry if none qualifies; the
\* list's order does not matter as long as its widths are distinct.  Among
\* qualifying entries of the same largest width the one supplied first
\* decides, among narrowest entries the one supplied last.
C18_BreakpointResolution ==
  (Mounted /\ Len(Supplied) > 0) =>
    /\ \E k \in Named : visibleItems = Supplied[k].items
    /\ DistinctWidths =>
         /\ \A k \in Named : visibleItems = Supplied[k].items
         /\ AnyOrder
    /\ Qualifying # {} =>
         visibleItems =
           Supplied[CHOOSE k \in Named : \A j \in Named : k <= j].items
    /\ Qualifying = {} =>
         visibleItems =
           Supplied[CHOOSE k \in Named : \A j \in Named : k >= j].items

\* Two entries of different widths supplied in ascending order, both
\* qualifying, after a resize: the second one decides.
C18_Witness ==
  /\ Len(Supplied) = 2
  /\ Supplied[1].width < Supplied[2].width
  /\ Supplied[2].width <= containerWidth
  /\ Supplied[1].items # Supplied[2].items
  /\ visibleItems = Supplied[2].items
  /\ last.op = "resize"
  /\ Committed

\* C18 as stated, for every list: the number of visible items is that of
\* every entry the resolution names, whatever the order of the list.
C18_OrderIndependent ==
  (Mounted /\ Len(Supplied) > 0) =>
    /\ \A k \in Named : visibleItems = Supplied[k].items
    /\ AnyOrder

\* A well-formed percentage: digits, an optional fraction, then "%".
WellFormedPercent(s) ==
  LET p2 == DigitsEnd(s, 1)
      p3 == IF p2 <= Len(s) /\ s[p2] = "." THEN DigitsEnd(s, p2 + 1) ELSE p2
  IN  /\ p2 > 1
      /\ p3 # p2 + 1
      /\ p3 = Len(s)
      /\ s[p3] = "%"

\* C19: the peek width the dimension update computes is 0 when peek is
\* disabled, the peek amount when that is a number, and 0 for every
\* malformed peek amount string.
C19_PeekWidthSafe ==
  Mounted =>
    /\ ~cfg.peek => peekWidth = Zero
    /\ (cfg.peek /\ cfg.peekAmount.type = "number")
         => peekWidth = ZQ(cfg.peekAmount.value)
    /\ ( /\ cfg.peek
         /\ cfg.peekAmount.type = "string"
         /\ ~WellFormedPercent(cfg.peekAmount.value) )
         => peekWidth = Zero

\* C19, the part the code satisfies: 0 without peek, the number when one is
\* given, and 0 for every string that does not end in "%".
C19_PeekWidthUnlessPercent ==
  Mounted =>
    /\ ~cfg.peek => peekWidth = Zero
    /\ (cfg.peek /\ cfg.peekAmount.type = "number")
         => peekWidth = ZQ(cfg.peekAmount.value)
    /\ ( /\ cfg.peek
         /\ cfg.peekAmount.type = "string"
         /\ ~EndsWith(cfg.peekAmount.value, "%") )
         => peekWidth = Zero

\* The peek width of a malformed percentage is not a number.
C19_PeekWidthNaN ==
  ( /\ Mounted
    /\ cfg.peek
    /\ cfg.peekAmount.type = "string"
    /\ EndsWith(cfg.peekAmount.value, "%")
    /\ ~IsDigit(cfg.peekAmount.value[1]) )
    => IsNaN(peekWidth)

\* C20: next() never decreases the current index and previous() never
\* increases it.
C20_NextPreviousMonotone ==
  /\ last.op = "next" => currentIndex >= last.from
  /\ last.op = "previous" => currentIndex <= last.from

\* C20 for previous() alone, which can only raise an index below 0.
C20_PreviousNeverIncreases == last.op = "previous" => currentIndex <= last.from

\* C20 from an index within [0, items.length - visibleItems], which the code
\* does satisfy.
C20_MonotoneFromIndexInRange ==
  [][(rendered.currentIndex \in 0..MaxIndex) =>
       /\ Handled("next") => currentIndex' >= rendered.currentIndex
       /\ Handled("previous") => currentIndex' <= rendered.currentIndex]_vars

\* No drag, no animation in flight, the visible range recomputed and
\* rendered (the effects of the last render have run and no update is
\* queued), a current index within [0, items.length - visibleItems],
\* virtualization enabled and the track rendered.
Settled ==
  /\ cfg.virtualization.enabled
  /\ Mounted
  /\ EffectsDone
  /\ Committed
  /\ ~throttlePending
  /\ Rendered
  /\ ~rendered.isDragging
  /\ NoAnimationInFlight
  /\ rendered.currentIndex \in 0..MaxIndex

\* The items on screen at the current index are all in the rendered range.
OnScreenRendered ==
  /\ QLe(rendered.visibleRange.start, ZQ(rendered.currentIndex))
  /\ QLe(ZQ(rendered.currentIndex + rendered.visibleItems),
         rendered.visibleRange.end)

\* C21: in every settled state the items currentIndex ..
\* currentIndex + visibleItems - 1 lie inside the rendered range [start, end).
C21_OnScreenRendered == Settled => OnScreenRendered

\* C21 where the offset is the one of the current index, which the code does
\* satisfy.
C21_RenderedAtOffsetOfIndex ==
  (Settled /\ rendered.sliderOffset = TargetOffset(rendered.currentIndex))
    => OnScreenRendered

\* C22: onDragStart and onDragEnd are called alternately, onDragStart first:
\* at any time the calls of onDragStart exceed those of onDragEnd by 0 or 1;
\* and with enableDrag false neither is called and no drag is in progress.
C22_DragCallsAlternate ==
  /\ unmatchedDragStarts \in {0, 1}
  /\ ~cfg.enableDrag =>
       (unmatchedDragStarts = 0 /\ ~isDragging /\ ~rendered.isDragging)

\* C22, its second statement: onDragEnd is never called without an unmatched
\* onDragStart before it.
C22_NoEndWithoutStart == unmatchedDragStarts >= 0

\* C22, a part the code satisfies: onDragEnd is called only by a handler of
\* a render in which a drag is in progress (an onDragStart was called and
\* its isDragging committed), and each runs it once.
C22_EndOnlyWhileDragging ==
  [][Handled("dragEnd") =>
       /\ cfg.enableDrag
       /\ rendered.isDragging
       /\ unmatchedDragStarts' = unmatchedDragStarts - 1]_vars

\* C22, the other part the code satisfies: with enableDrag false neither
\* callback is called, no drag is in progress, and no pointer event changes
\* the offset or the index.
C22_NothingWhenDisabled ==
  ~cfg.enableDrag =>
    /\ unmatchedDragStarts = 0
    /\ ~isDragging
    /\ ~rendered.isDragging
    /\ last.op \notin {"dragStart", "dragMove", "dragEnd"}

\* The window has been computed from the selected scroll snap: the effect
\* has run in the render in which isInitialized is true.
WindowComputed ==
  /\ carousel.isInitialized
  /\ carousel.closureInitialized
  /\ Len(carousel.products) > 0

\* startIndex and endIndex of getVisibleSlides
WindowStart ==
  normalizeIndex(carousel.selected - BUFFER_SIZE, Len(carousel.products))

WindowEnd ==
  normalizeIndex(carousel.selected + VIEWPORT_SIZE + BUFFER_SIZE,
                 Len(carousel.products))

SelectedInWindow ==
  \E k \in 1..Len(carousel.visibleSlides) :
    carousel.visibleSlides[k] = carousel.products[carousel.selected + 1]

\* C23: for every non-empty list of products and every selected snap s in
\* [0, products.length), the window's start and end indices lie within
\* [0, products.length), the window contains products[s], and it has at most
\* VIEWPORT_SIZE + 2 * BUFFER_SIZE entries.
C23_WindowAroundSelected ==
  WindowComputed =>
    /\ WindowStart \in 0..(Len(carousel.products) - 1)
    /\ WindowEnd \in 0..(Len(carousel.products) - 1)
    /\ SelectedInWindow
    /\ Len(carousel.visibleSlides) <= VIEWPORT_SIZE + 2 * BUFFER_SIZE

\* C23, the parts the code satisfies: the window never has more than
\* VIEWPORT_SIZE + 2 * BUFFER_SIZE entries, and with at least that many
\* products the whole claim holds.
C23_WindowSize ==
  Len(carousel.visibleSlides) <= VIEWPORT_SIZE + 2 * BUFFER_SIZE

C23_WindowOfManyProducts ==
  (WindowComputed /\ Len(carousel.products) >= VIEWPORT_SIZE + 2 * BUFFER_SIZE)
    => C23_WindowAroundSelected

=============================================================================
